---- MODULE Spec2Model ----
(***************************************************************************)
(* Vote-submission pipeline of AliensVoteBot.                              *)
(*                                                                         *)
(*   src/database.py       Database: one shared aiosqlite connection; the  *)
(*                         votes table with UNIQUE(poll_id, user_id);      *)
(*                         add_vote with its retry loop; the read queries. *)
(*   src/handlers/vote.py  cb_vote_option (beginVote), cb_captcha_answer   *)
(*                         (submitAnswer), _send_captcha.                  *)
(*   src/handlers/start.py cmd_start, cmd_cancel, callback_main_menu: the  *)
(*                         handlers that clear the FSM session.            *)
(*                                                                         *)
(* Every handler is a coroutine run as its own asyncio task, so handlers   *)
(* interleave at their awaits.  A task slot holds one running handler: its *)
(* position (pc) and its local variables.  One action is one resumption of *)
(* a coroutine: the code between two awaits that really suspend (database  *)
(* calls, the captcha worker pool, Telegram calls, asyncio.sleep).  Calls  *)
(* of the in-memory FSM storage (get_data, set_state, update_data, clear)  *)
(* never suspend and belong to the step that reaches them.                 *)
(*                                                                         *)
(* All database calls go through the one connection Database.get_instance  *)
(* returns, so every statement sees the rows of the connection's open      *)
(* transaction, a commit() commits everything that is pending and a        *)
(* rollback() discards everything that is pending, whoever wrote it.  The   *)
(* connection's worker thread runs the calls one at a time, in the order   *)
(* the coroutines issued them.                                             *)
(***************************************************************************)
EXTENDS Integers, Sequences, FiniteSets, TLC

\* ---------------------------------------------------------------- bounds
NumVoters == 2
\* Voters that go through the challenge (the others only reach the ledger).
NumChallengers == 1
\* Polls that have been created.
NumPolls == 2
\* Polls that the events of the concurrent specifications address.
NumHotPolls == 1
NumOptions == 2
\* Puzzle answers are drawn from 0..MaxAnswer (the generator's range is 0..144).
MaxAnswer == 1
\* Handlers that may be in flight at the same time.
MaxTasks == 2
\* Option labels the creator types for one poll.
MaxLabels == 2
\* Polls the authoring flow stores.
MaxStored == 1
\* Authoring handlers that may be in flight at the same time.
MaxAuthoring == 2
\* Broadcasts of the admin that may run at the same time.
MaxBroadcasts == 2
\* Users db.get_all_user_ids() returns.
NumUsers == 2
\* Concurrent callers of Database.get_instance.
NumCallers == 3
\* Database objects created in a run (the first one and the reconnections).
MaxInstances == 4

\* ------------------------------------------------------- program constants
\* config.CAPTCHA_COUNT, the number of rounds N (config.py is not part of the
\* sources at hand; the specification gives 3 as the configured value).
CAPTCHA_COUNT == 3
\* for attempt in range(3)
AddVoteAttempts == 3
\* A key that is absent from the FSM data dict (data[key] raises KeyError).
Missing == -2
\* Python's None.
NoneVal == -1

Voters == 1..NumVoters
Challengers == 1..NumChallengers
Polls == 1..NumPolls
HotPolls == 1..NumHotPolls
\* The poll ids a callback can carry: those of the polls and one that no
\* poll has.
PollIds == 1..(NumPolls + 1)
Options == 0..(NumOptions - 1)
Answers == 0..MaxAnswer
Tasks == 1..MaxTasks

\* Texts of the exceptions the storage can raise besides the constraint
\* violation: one of the lock class, one of another class.
LockedMsg == "database is locked"
IoMsg == "disk I/O error"
UniqueMsg == "UNIQUE constraint failed: votes.poll_id, votes.user_id"
StorageErrors == {LockedMsg, IoMsg}

VARIABLES
    state,            \* FSM state per voter: "none" | "solving_captcha"
    data,             \* FSM data per voter (the session's fields)
    votes,            \* committed rows of the votes table
    pending,          \* rows inserted in the connection's open transaction
    inactive,         \* polls with is_active = 0, committed
    pendingInactive,  \* polls set inactive in the open transaction
    task,             \* the running handlers
    dbq,              \* tasks whose database call waits on the connection, in order
    credit,           \* history: correct answers handled since the session began
    commits,          \* history: add_vote calls made since the session began
    gen,              \* the locals of a run of generate_captcha_image
    astate,           \* FSM state of the poll's creator (PollCreation)
    adata,            \* FSM data of the creator: question, options
    atask,            \* the running handlers of the authoring flow
    polls,            \* the rows create_poll has stored, in order
    typed,            \* history: the labels accepted for the poll being authored
    cancelFlags,      \* _cancel_flags: the admin's entry, "absent" | "false" | "true"
    bc,               \* the running cb_broadcast_send handlers
    conn,             \* Database._instance, Database._lock and the connections
    gi                \* the running Database.get_instance calls

vars == <<state, data, votes, pending, inactive, pendingInactive, task, dbq,
          credit, commits, gen, astate, adata, atask, polls, typed,
          cancelFlags, bc, conn, gi>>

authorVars == <<astate, adata, atask, polls, typed>>
adminVars == <<cancelFlags, bc>>
connVars == <<conn, gi>>
\* What the handlers of the vote flow and the Database calls leave alone.
sideVars == <<gen, authorVars, adminVars, connVars>>

dbVars == <<votes, pending, inactive, pendingInactive>>
sessVars == <<state, data>>
histVars == <<credit, commits>>

\* ------------------------------------------------------------ the session
EmptyData == [poll_id |-> Missing, option_index |-> Missing,
              captcha_solved |-> Missing, captcha_answer |-> Missing,
              captcha_msg_id |-> Missing]

\* A task slot: the handler's position, its locals, and what it has done so
\* far (wrong, issued, shown, result, rowState and peer record history and are
\* read by no action).  count and total are what the handler has read for
\* the result message: the count of the chosen option and the poll's total.
IdleTask == [kind |-> "idle", pc |-> "idle", voter |-> 0, poll |-> 0,
             option |-> NoneVal, selected |-> NoneVal, correct |-> NoneVal,
             wrong |-> FALSE, solved |-> 0, issued |-> NoneVal,
             attempt |-> 0, lastErr |-> "", slept |-> <<>>, result |-> "none",
             shown |-> "none", rowState |-> "none", peer |-> FALSE,
             count |-> NoneVal, total |-> NoneVal]

\* ----------------------------------------------------------- the database
\* What a statement on the shared connection sees.
Visible == votes \cup pending

MaxOf(S) == IF S = {} THEN 0 ELSE CHOOSE m \in S : \A x \in S : x <= m

\* id INTEGER PRIMARY KEY AUTOINCREMENT: one more than the largest id the
\* table has held; sqlite_sequence is written in the same transaction.
NextId == 1 + MaxOf({r.id : r \in Visible})

\* has_voted
HasVoted_Never(p, v) == FALSE
HasVoted(p, v) == \E r \in Visible : r.poll = p /\ r.user = v

\* get_vote_number: SELECT COUNT(*) FROM votes WHERE poll_id = ? AND id <=
\* (SELECT id FROM votes WHERE poll_id = ? AND user_id = ?).  Without a row of
\* the voter the subquery is NULL and the count is 0.
GetVoteNumber_Strict(p, v) ==
    Cardinality({r \in Visible :
                    /\ r.poll = p
                    /\ \E s \in Visible : s.poll = p /\ s.user = v /\ r.id < s.id})
GetVoteNumber_AnyPoll(p, v) ==
    Cardinality({r \in Visible :
                    \E s \in Visible : s.poll = p /\ s.user = v /\ r.id <= s.id})
GetVoteNumber(p, v) ==
    Cardinality({r \in Visible :
                    /\ r.poll = p
                    /\ \E s \in Visible : s.poll = p /\ s.user = v /\ r.id <= s.id})

\* get_total_votes: SELECT COUNT(*) FROM votes WHERE poll_id = ?
GetTotalVotes(p) == Cardinality({r \in Visible : r.poll = p})

\* get_vote_counts: SELECT option_index, COUNT(*) ... GROUP BY option_index,
\* read by the handler as counts.get(i, 0).
GetVoteCounts(p) ==
    [o \in Options |-> Cardinality({r \in Visible : r.poll = p /\ r.opt = o})]

\* UNIQUE(poll_id, user_id), checked by the INSERT.
InsertConflict_CommittedOnly(p, v) == \E r \in votes : r.poll = p /\ r.user = v
InsertConflict(p, v) == \E r \in Visible : r.poll = p /\ r.user = v

\* get_poll: WHERE poll_id = ? AND is_active = 1
PollActive_Always(p) == TRUE
PollActive(p) == p \in Polls /\ p \notin (inactive \cup pendingInactive)

\* "locked" in str(e).lower()
ContainsLocked(msg) == msg \in {"database is locked", "database table is locked"}

\* if "locked" in str(e).lower() and attempt < 2
ShouldRetry_AnyError(msg, attempt) == attempt < 2
ShouldRetry_Locked(msg, attempt) == ContainsLocked(msg)
ShouldRetry(msg, attempt) == ContainsLocked(msg) /\ attempt < 2

\* asyncio.sleep(0.3 * (attempt + 1)), in milliseconds
Backoff(attempt) == 300 * (attempt + 1)

\* if solved >= config.CAPTCHA_COUNT
AllSolved_Early(solved) == solved >= CAPTCHA_COUNT - 1
AllSolved(solved) == solved >= CAPTCHA_COUNT

\* state.update_data(captcha_solved=solved, captcha_answer=None), solved
\* being the value the handler read plus one.
NextRound_Skip(d, solved) ==
    [d EXCEPT !.captcha_solved = solved + 1, !.captcha_answer = NoneVal]
NextRound(d, solved) ==
    [d EXCEPT !.captcha_solved = solved, !.captcha_answer = NoneVal]

\* state.update_data(poll_id=poll_id, option_index=option_index,
\* captcha_solved=0): the other keys of the data stay.
NewSession_KeepSolved(d, p, o) ==
    [d EXCEPT !.poll_id = p, !.option_index = o,
              !.captcha_solved = IF @ = Missing THEN 0 ELSE @]
NewSession_KeepTarget(d, p, o) ==
    [d EXCEPT !.poll_id = IF @ = Missing THEN p ELSE @,
              !.option_index = IF @ = Missing THEN o ELSE @,
              !.captcha_solved = 0]
NewSession(d, p, o) == [d EXCEPT !.poll_id = p, !.option_index = o, !.captcha_solved = 0]

\* ------------------------------------------------- generate_captcha_image
\* The locals of generate_captcha_image: op, a, b, answer, wrong, options.
\* The operands live on only in the text drawn into the image, which is left
\* out: the record drops them when the loop over the wrong options begins.
GenIdle == [pc |-> "idle", op |-> "", a |-> NoneVal, b |-> NoneVal,
            answer |-> NoneVal, wrong |-> {}, options |-> <<>>]

\* if selected != correct
IsWrong_Never(sel, cor) == FALSE
IsWrong(sel, cor) == sel # cor

\* ------------------------------------------------- the authoring session
\* A key that is absent from the creator's FSM data (data.get() gives None).
Absent == "<absent>"

\* state.clear(): data = {}
EmptyAuthoring == [question |-> Absent, hasOptions |-> FALSE, options |-> <<>>]

AuthorTasks == 1..MaxAuthoring

\* A handler slot of the authoring flow: its position and the locals
\* question and options of _create_and_send_poll (entered is history: the
\* labels that had been accepted when the handler read the data).
IdleAuthor == [pc |-> "idle", question |-> Absent, options |-> <<>>, entered |-> <<>>]

AuthorInit ==
    /\ astate = "none"
    /\ adata = EmptyAuthoring
    /\ atask = [t \in AuthorTasks |-> IdleAuthor]
    /\ polls = <<>>
    /\ typed = <<>>

\* ------------------------------------------------- the admin's broadcasts
Broadcasts == 1..MaxBroadcasts

\* A slot of cb_broadcast_send: its position, the loop index i, and history:
\* stopped (a bc:stop was handled while the loop of this broadcast ran) and
\* the status of its final message.
IdleBroadcast == [pc |-> "idle", i |-> 0, stopped |-> FALSE, status |-> "none"]

\* _cancel_flags: dict[int, bool] = {}
AdminInit ==
    /\ cancelFlags = "absent"
    /\ bc = [b \in Broadcasts |-> IdleBroadcast]

\* ------------------------------------------------- Database.get_instance
Callers == 1..NumCallers

\* _instance = None (0), _lock free (0) with no waiter, no Database object
\* created; opened counts the connections opened since the last time the
\* connection was lost, dead holds the objects whose connection is lost.
NoConn == [instance |-> 0, lock |-> 0, waiters |-> <<>>, created |-> 0,
           opened |-> 0, dead |-> {}]

\* A call of get_instance: its position, the object whose SELECT 1 it
\* awaits, and the object it has returned.
IdleCall == [pc |-> "idle", probe |-> 0, got |-> 0]

ConnInit ==
    /\ conn = NoConn
    /\ gi = [c \in Callers |-> IdleCall]

\* ------------------------------------------------------------------ Init
\* The bot after start-up: no session, no row, no handler running, no puzzle
\* generated.
BotInit ==
    /\ state = [v \in Voters |-> "none"]
    /\ data = [v \in Voters |-> EmptyData]
    /\ votes = {}
    /\ pending = {}
    /\ inactive = {}
    /\ pendingInactive = {}
    /\ task = [t \in Tasks |-> IdleTask]
    /\ dbq = <<>>
    /\ credit = [v \in Voters |-> 0]
    /\ commits = [v \in Voters |-> 0]
    /\ AuthorInit
    /\ AdminInit
    /\ ConnInit

Init ==
    /\ BotInit
    /\ gen = GenIdle

\* ------------------------------------------------------------ bookkeeping
Handler(u) == task[u].kind \in {"vote", "answer", "start"}

\* A handler of voter v is in flight.
InFlight(v) == \E u \in Tasks : Handler(u) /\ task[u].voter = v

\* The slot a new handler takes: the first free one (which slot runs a
\* handler makes no difference).
Free(t) == task[t].kind = "idle" /\ \A u \in Tasks : u < t => task[u].kind # "idle"

\* Positions at which a handler awaits a call on the database connection.
DbPcs == {"vo_has_voted", "vo_get_poll", "ca_get_poll", "av_insert", "av_commit",
          "av_rollback", "ca_counts", "ca_total", "ca_number", "st_commit",
          "dp_update", "dp_commit"}

\* The connection runs its calls one at a time, in the order they were
\* issued: the call that returns is the oldest one waiting.
Turn(t) == dbq # <<>> /\ Head(dbq) = t

\* _async_generate_captcha: loop.run_in_executor(_captcha_pool,
\* generate_captcha_image).  The synthesis runs on a thread of the pool, so
\* the event loop is free to run a step of task t whatever the other tasks
\* are waiting for.
LoopFree_Inline(t) == \A u \in Tasks \ {t} : task[u].pc # "sc_gen"
LoopFree(t) == TRUE


\* Task t has moved on: its call has left the queue, and if it now awaits
\* another database call, that call is the newest one waiting.
Queue(t) ==
    /\ LoopFree(t)
    /\ dbq' = LET q == SelectSeq(dbq, LAMBDA u : u # t)
              IN  IF task'[t].pc \in DbPcs THEN Append(q, t) ELSE q

\* The history of voter v's session starts over.
ResetHist(v) ==
    /\ credit' = [credit EXCEPT ![v] = 0]
    /\ commits' = [commits EXCEPT ![v] = 0]

\* state.clear(): set_state(None) and set_data({})
StateClear_All(v) ==
    /\ state' = [u \in Voters |-> "none"]
    /\ data' = [u \in Voters |-> EmptyData]
    /\ ResetHist(v)

StateClear(v) ==
    /\ state' = [state EXCEPT ![v] = "none"]
    /\ data' = [data EXCEPT ![v] = EmptyData]
    /\ ResetHist(v)

\* db.commit() on the shared connection
DbCommit ==
    /\ votes' = votes \cup pending
    /\ pending' = {}
    /\ inactive' = inactive \cup pendingInactive
    /\ pendingInactive' = {}

\* db.rollback() on the shared connection
DbRollback_All ==
    /\ votes' = {}
    /\ pending' = {}
    /\ pendingInactive' = {}
    /\ UNCHANGED inactive

DbRollback ==
    /\ pending' = {}
    /\ pendingInactive' = {}
    /\ UNCHANGED <<votes, inactive>>

\* History: what became of the rows the running add_vote calls inserted.
RowsTo(what) ==
    [u \in Tasks |->
        IF task[u].rowState = "pending"
        THEN [task[u] EXCEPT !.rowState = what] ELSE task[u]]

Min(a, b) == IF a < b THEN a ELSE b

\* The handler is at its last await (callback.answer): only what it did is
\* kept.
Ending(r, text) ==
    [IdleTask EXCEPT !.kind = r.kind, !.pc = "answer_cb", !.voter = r.voter,
                     !.poll = r.poll, !.option = r.option,
                     !.shown = text, !.result = r.result, !.issued = r.issued,
                     !.lastErr = r.lastErr, !.rowState = r.rowState]

\* An exception leaves the handler.
Raised(r) == [Ending(r, r.shown) EXCEPT !.pc = "raised"]

\* The add_vote calls for (p, v) that are running when task t calls it.
Peers(t, p, v) ==
    {u \in Tasks \ {t} : /\ task[u].pc \in {"av_insert", "av_commit", "av_rollback", "av_sleep"}
                         /\ task[u].poll = p /\ task[u].voter = v}

\* Task t enters add_vote with the locals r.  History: t and the calls for the
\* same (poll, voter) that are running now overlap.
Entered(t, r) ==
    [u \in Tasks |->
        IF u = t THEN [r EXCEPT !.pc = "av_insert",
                                !.peer = Peers(t, r.poll, r.voter) # {}]
        ELSE IF u \in Peers(t, r.poll, r.voter) THEN [task[u] EXCEPT !.peer = TRUE]
        ELSE task[u]]

\* -------------------------------------------------- cb_vote_option (beginVote)
\* The callback "v:<poll_id>:<i>" arrives; the handler runs up to
\* Database.get_instance() / db.has_voted().
BeginVote(t, v, p, o) ==
    /\ Free(t)
    /\ task' = [task EXCEPT ![t] =
                   [IdleTask EXCEPT !.kind = "vote", !.pc = "vo_has_voted",
                                    !.voter = v, !.poll = p, !.option = o]]
    /\ UNCHANGED <<sessVars, dbVars, histVars>>
    /\ UNCHANGED sideVars
    /\ Queue(t)

\* if await db.has_voted(...): alert and return; else db.get_poll()
VoHasVoted(t) ==
    /\ task[t].pc = "vo_has_voted"
    /\ Turn(t)
    /\ task' = [task EXCEPT ![t] =
                   IF HasVoted(task[t].poll, task[t].voter)
                   THEN Ending(@, "already_voted")
                   ELSE [@ EXCEPT !.pc = "vo_get_poll"]]
    /\ UNCHANGED <<sessVars, dbVars, histVars>>
    /\ UNCHANGED sideVars
    /\ Queue(t)

\* poll = await db.get_poll(...); not found: alert and return.  Otherwise
\* set_state(solving_captcha), update_data(poll_id, option_index,
\* captcha_solved=0) and _send_captcha up to the captcha worker pool.
VoGetPoll(t) ==
    LET v == task[t].voter
    IN  /\ task[t].pc = "vo_get_poll"
        /\ Turn(t)
        /\ IF ~PollActive(task[t].poll)
           THEN /\ task' = [task EXCEPT ![t] = Ending(@, "not_found")]
                /\ UNCHANGED <<sessVars, histVars>>
           ELSE /\ state' = [state EXCEPT ![v] = "solving_captcha"]
                /\ data' = [data EXCEPT ![v] =
                               NewSession(@, task[t].poll, task[t].option)]
                /\ ResetHist(v)
                /\ task' = [task EXCEPT ![t] = [@ EXCEPT !.pc = "sc_gen"]]
        /\ UNCHANGED dbVars
        /\ UNCHANGED sideVars
        /\ Queue(t)

\* ------------------------------------------------------------ _send_captcha
\* img_bytes, answer, opts = await _async_generate_captcha()
\* await state.update_data(captcha_answer=answer)
ScGen(t, a) ==
    LET v == task[t].voter
    IN  /\ task[t].pc = "sc_gen"
        /\ data' = [data EXCEPT ![v] = [@ EXCEPT !.captcha_answer = a]]
        /\ task' = [task EXCEPT ![t] = [@ EXCEPT !.pc = "sc_show", !.issued = a]]
        /\ UNCHANGED <<state, dbVars, histVars>>
        /\ UNCHANGED sideVars
        /\ Queue(t)

\* The message a handler passes to bot.delete_message is callback.message,
\* the message that carries the pressed button: the poll message for a "v:"
\* callback (show_poll_for_vote), a puzzle message for a "ca:" callback.
Pressed(r) == IF r.kind = "vote" THEN "poll" ELSE "puzzle"

\* bot.delete_message(chat_id, old_message_id), whose failure the except
\* clause swallows; msg = bot.send_photo(...);
\* update_data(captcha_msg_id=msg.message_id) (the handles are not told
\* apart: 1 stands for any of them); back in the handler:
\* await callback.answer(...)
ScShowOk(t) ==
    /\ task[t].pc = "sc_show"
    /\ task' = [task EXCEPT ![t] = Ending(@, "puzzle")]
    /\ data' = [data EXCEPT ![task[t].voter] = [@ EXCEPT !.captcha_msg_id = 1]]
    /\ UNCHANGED <<state, dbVars, histVars>>
    /\ UNCHANGED sideVars
    /\ Queue(t)

\* bot.send_photo raises: the exception leaves the handler.
ScShowFail(t) ==
    /\ task[t].pc = "sc_show"
    /\ task' = [task EXCEPT ![t] = Raised(@)]
    /\ UNCHANGED <<sessVars, dbVars, histVars>>
    /\ UNCHANGED sideVars
    /\ Queue(t)

\* The filters of cb_captcha_answer: F.data.startswith("ca:") and the state
\* VoteProcess.solving_captcha.
Accepts_Any(st) == TRUE
Accepts(st) == st = "solving_captcha"

\* A "ca:" callback of a voter whose state is not solving_captcha: no handler
\* of any router matches it and the dispatcher drops the update.
DropAnswer(t, v, sel) ==
    /\ Free(t)
    /\ ~Accepts(state[v])
    /\ task' = [task EXCEPT ![t] =
                   [IdleTask EXCEPT !.kind = "answer", !.pc = "unhandled", !.voter = v,
                                    !.selected = sel]]
    /\ UNCHANGED <<sessVars, dbVars, histVars>>
    /\ UNCHANGED sideVars
    /\ Queue(t)


\* ---------------------------------------------- cb_captcha_answer (submitAnswer)
\* The callback "ca:<value>" passes the filter VoteProcess.solving_captcha;
\* data = await state.get_data(); selected and the four data[...] reads (a
\* missing key raises KeyError); then Database.get_instance() / db.get_poll().
SubmitAnswer(t, v, sel) ==
    LET d == data[v]
    IN  /\ Free(t)
        /\ Accepts(state[v])
        /\ task' = [task EXCEPT ![t] =
              IF Missing \in {d.captcha_answer, d.captcha_solved, d.poll_id, d.option_index}
              THEN Raised([IdleTask EXCEPT !.kind = "answer", !.voter = v])
              ELSE [IdleTask EXCEPT !.kind = "answer", !.pc = "ca_get_poll", !.voter = v,
                                    !.selected = sel, !.correct = d.captcha_answer,
                                    !.solved = d.captcha_solved, !.poll = d.poll_id,
                                    !.option = d.option_index]]
        /\ UNCHANGED <<sessVars, dbVars, histVars>>
        /\ UNCHANGED sideVars
        /\ Queue(t)

\* poll = await db.get_poll(poll_id) returns, and the handler runs on to its
\* next await: state.clear() when the poll is gone; _send_captcha when the
\* answer is wrong; db.add_vote when the last round is solved; otherwise
\* update_data(captcha_solved=solved, captcha_answer=None) and _send_captcha.
CaGetPoll(t) ==
    LET v == task[t].voter
        s == task[t].solved + 1
        cr == Min(credit[v] + 1, CAPTCHA_COUNT + 1)
    IN  /\ task[t].pc = "ca_get_poll"
        /\ Turn(t)
        /\ IF ~PollActive(task[t].poll)
           THEN /\ StateClear(v)
                /\ task' = [task EXCEPT ![t] =
                               Ending(@, "not_found")]
           ELSE IF IsWrong(task[t].selected, task[t].correct)
           THEN /\ task' = [task EXCEPT ![t] =
                               [IdleTask EXCEPT !.kind = "answer", !.pc = "sc_gen",
                                                !.voter = v, !.wrong = TRUE]]
                /\ UNCHANGED <<sessVars, histVars>>
           ELSE IF AllSolved(s)
           THEN /\ task' = Entered(t, [task[t] EXCEPT !.solved = s,
                                                      !.selected = NoneVal,
                                                      !.correct = NoneVal])
                /\ credit' = [credit EXCEPT ![v] = cr]
                /\ commits' = [commits EXCEPT ![v] = Min(@ + 1, 2)]
                /\ UNCHANGED sessVars
           ELSE /\ data' = [data EXCEPT ![v] = NextRound(@, s)]
                /\ credit' = [credit EXCEPT ![v] = cr]
                /\ task' = [task EXCEPT ![t] =
                               [IdleTask EXCEPT !.kind = "answer", !.pc = "sc_gen",
                                                !.voter = v]]
                /\ UNCHANGED <<state, commits>>
        /\ UNCHANGED dbVars
        /\ UNCHANGED sideVars
        /\ Queue(t)

\* ------------------------------------------------------- Database.add_vote
\* Where add_vote returns to: in cb_captcha_answer, "if success:" goes on to
\* db.get_vote_counts(), the else branch to bot.delete_message /
\* bot.send_message.
Return(r, success) ==
    IF r.kind = "answer" THEN (IF success THEN "ca_counts" ELSE "ca_reject")
    ELSE "returned"

\* Some handler calls db.add_vote(p, v, o) (the caller is left out).
CallAddVote(t, p, v, o) ==
    /\ Free(t)
    /\ task' = Entered(t, [IdleTask EXCEPT !.kind = "ledger", !.voter = v,
                                           !.poll = p, !.option = o])
    /\ UNCHANGED <<dbVars, sessVars, histVars>>
    /\ UNCHANGED sideVars
    /\ Queue(t)

\* await self.db.execute("INSERT INTO votes ...") succeeds: the row is in the
\* connection's open transaction.
AvInsertOk(t) ==
    /\ task[t].pc = "av_insert"
    /\ Turn(t)
    /\ ~InsertConflict(task[t].poll, task[t].voter)
    /\ pending' = pending \cup {[id |-> NextId, poll |-> task[t].poll,
                                 user |-> task[t].voter, opt |-> task[t].option]}
    /\ task' = [task EXCEPT ![t] = [@ EXCEPT !.pc = "av_commit", !.rowState = "pending"]]
    /\ UNCHANGED <<votes, inactive, pendingInactive, sessVars, histVars>>
    /\ UNCHANGED sideVars
    /\ Queue(t)

\* The INSERT raises IntegrityError: UNIQUE(poll_id, user_id).
AvInsertUnique(t) ==
    /\ task[t].pc = "av_insert"
    /\ Turn(t)
    /\ InsertConflict(task[t].poll, task[t].voter)
    /\ task' = [task EXCEPT ![t] = [@ EXCEPT !.pc = "av_rollback", !.lastErr = UniqueMsg]]
    /\ UNCHANGED <<dbVars, sessVars, histVars>>
    /\ UNCHANGED sideVars
    /\ Queue(t)

\* The INSERT raises a storage error (the database is locked by another
\* process, an I/O error).
AvInsertFail(t, e) ==
    /\ task[t].pc = "av_insert"
    /\ Turn(t)
    /\ task' = [task EXCEPT ![t] = [@ EXCEPT !.pc = "av_rollback", !.lastErr = e]]
    /\ UNCHANGED <<dbVars, sessVars, histVars>>
    /\ UNCHANGED sideVars
    /\ Queue(t)

\* await self.db.commit() succeeds; return True.  Back in cb_captcha_answer:
\* db.get_vote_counts().
AvCommitOk(t) ==
    /\ task[t].pc = "av_commit"
    /\ Turn(t)
    /\ DbCommit
    /\ task' = [RowsTo("committed") EXCEPT ![t] =
                   [@ EXCEPT !.pc = Return(task[t], TRUE), !.result = "true"]]
    /\ UNCHANGED <<sessVars, histVars>>
    /\ UNCHANGED sideVars
    /\ Queue(t)

\* await self.db.commit() raises.
AvCommitFail(t, e) ==
    /\ task[t].pc = "av_commit"
    /\ Turn(t)
    /\ task' = [task EXCEPT ![t] = [@ EXCEPT !.pc = "av_rollback", !.lastErr = e]]
    /\ UNCHANGED <<dbVars, sessVars, histVars>>
    /\ UNCHANGED sideVars
    /\ Queue(t)

\* After the rollback: sleep and retry, or return False (back in
\* cb_captcha_answer: the else branch, bot.delete_message / bot.send_message).
AfterRollback(r) ==
    IF ShouldRetry(r.lastErr, r.attempt)
    THEN [r EXCEPT !.pc = "av_sleep"]
    ELSE [r EXCEPT !.pc = Return(r, FALSE), !.result = "false"]

\* except Exception: await self.db.rollback() succeeds: every pending row
\* is gone.
AvRollbackOk(t) ==
    /\ task[t].pc = "av_rollback"
    /\ Turn(t)
    /\ DbRollback
    /\ task' = [RowsTo("none") EXCEPT ![t] = AfterRollback(@)]
    /\ UNCHANGED <<sessVars, histVars>>
    /\ UNCHANGED sideVars
    /\ Queue(t)

\* The rollback raises too: except Exception: pass.
AvRollbackFail(t) ==
    /\ task[t].pc = "av_rollback"
    /\ Turn(t)
    /\ task' = [task EXCEPT ![t] = AfterRollback(@)]
    /\ UNCHANGED <<dbVars, sessVars, histVars>>
    /\ UNCHANGED sideVars
    /\ Queue(t)

\* await asyncio.sleep(0.3 * (attempt + 1)); continue
AvSleep(t) ==
    /\ task[t].pc = "av_sleep"
    /\ task' = [task EXCEPT ![t] =
                   IF task[t].attempt + 1 < AddVoteAttempts
                   THEN [@ EXCEPT !.pc = "av_insert", !.attempt = @ + 1,
                                  !.lastErr = "",
                                  !.slept = Append(@, Backoff(task[t].attempt))]
                   ELSE [@ EXCEPT !.pc = Return(task[t], FALSE), !.result = "false",
                                  !.attempt = @ + 1,
                                  !.slept = Append(@, Backoff(task[t].attempt))]]
    /\ UNCHANGED <<dbVars, sessVars, histVars>>
    /\ UNCHANGED sideVars
    /\ Queue(t)

\* ------------------------------------- cb_captcha_answer after db.add_vote
\* The locals of add_vote are gone once the handler moves on.
AfterVote(r, where) ==
    [r EXCEPT !.pc = where, !.attempt = 0, !.slept = <<>>, !.solved = 0,
              !.peer = FALSE]

\* vote_counts = await db.get_vote_counts(poll_id).  The result text has one
\* line per option of the poll (for i, opt in enumerate(options_list)) and
\* marks the line with i == option_index: an index that is not in the option
\* list has no line, so no count of the voter's own option is shown.
CaCounts(t) ==
    /\ task[t].pc = "ca_counts"
    /\ Turn(t)
    /\ task' = [task EXCEPT ![t] =
                   [AfterVote(@, "ca_total") EXCEPT
                       !.count = IF task[t].option \in Options
                                 THEN GetVoteCounts(task[t].poll)[task[t].option]
                                 ELSE NoneVal]]
    /\ UNCHANGED <<dbVars, sessVars, histVars>>
    /\ UNCHANGED sideVars
    /\ Queue(t)

\* total = await db.get_total_votes(poll_id)
CaTotal(t) ==
    /\ task[t].pc = "ca_total"
    /\ Turn(t)
    /\ task' = [task EXCEPT ![t] =
                   [@ EXCEPT !.pc = "ca_number", !.total = GetTotalVotes(task[t].poll)]]
    /\ UNCHANGED <<dbVars, sessVars, histVars>>
    /\ UNCHANGED sideVars
    /\ Queue(t)

\* vote_number = await db.get_vote_number(poll_id, user_id); the log channel
\* message (guarded); bot.delete_message (guarded); bot.send_message(result)
CaNumber(t) ==
    /\ task[t].pc = "ca_number"
    /\ Turn(t)
    /\ task' = [task EXCEPT ![t] = [@ EXCEPT !.pc = "ca_result"]]
    /\ UNCHANGED <<dbVars, sessVars, histVars>>
    /\ UNCHANGED sideVars
    /\ Queue(t)

\* One of the three reads raises: the exception leaves the handler.
CaReadFail(t) ==
    /\ task[t].pc \in {"ca_counts", "ca_total", "ca_number"}
    /\ Turn(t)
    /\ task' = [task EXCEPT ![t] = Raised(@)]
    /\ UNCHANGED <<dbVars, sessVars, histVars>>
    /\ UNCHANGED sideVars
    /\ Queue(t)

\* bot.send_message(result text) returns; log_new_vote(...) is awaited.
CaResultOk(t) ==
    /\ task[t].pc = "ca_result"
    /\ task' = [task EXCEPT ![t] = [@ EXCEPT !.pc = "ca_log", !.shown = "accepted"]]
    /\ UNCHANGED <<dbVars, sessVars, histVars>>
    /\ UNCHANGED sideVars
    /\ Queue(t)

\* bot.send_message(result text) raises: the exception leaves the handler.
CaResultFail(t) ==
    /\ task[t].pc = "ca_result"
    /\ task' = [task EXCEPT ![t] = Raised(@)]
    /\ UNCHANGED <<dbVars, sessVars, histVars>>
    /\ UNCHANGED sideVars
    /\ Queue(t)

\* log_new_vote returns (admin_log swallows every exception);
\* await state.clear(); await callback.answer()
CaLog(t) ==
    /\ task[t].pc = "ca_log"
    /\ StateClear(task[t].voter)
    /\ task' = [task EXCEPT ![t] = Ending(@, "accepted")]
    /\ UNCHANGED dbVars
    /\ UNCHANGED sideVars
    /\ Queue(t)

\* else branch: bot.delete_message (guarded), then
\* bot.send_message("you have already voted") returns;
\* await state.clear(); await callback.answer()
CaRejectOk(t) ==
    /\ task[t].pc = "ca_reject"
    /\ StateClear(task[t].voter)
    /\ task' = [task EXCEPT ![t] = Ending(@, "already_voted")]
    /\ UNCHANGED dbVars
    /\ UNCHANGED sideVars
    /\ Queue(t)

\* else branch: bot.send_message raises: the exception leaves the handler.
CaRejectFail(t) ==
    /\ task[t].pc = "ca_reject"
    /\ task' = [task EXCEPT ![t] = Raised(@)]
    /\ UNCHANGED <<dbVars, sessVars, histVars>>
    /\ UNCHANGED sideVars
    /\ Queue(t)

\* The handler's last await (callback.answer) returns, or the exception
\* reaches the dispatcher: the task ends.
Finish(t) ==
    /\ task[t].pc \in {"answer_cb", "raised", "returned", "unhandled"}
    /\ task' = [task EXCEPT ![t] = IdleTask]
    /\ UNCHANGED <<dbVars, sessVars, histVars>>
    /\ UNCHANGED sideVars
    /\ Queue(t)

\* ------------------------------------------- handlers that clear the session
\* cmd_cancel, callback_main_menu: await state.clear() is their first
\* statement; nothing after it touches the session or the votes.
Cancel(v) ==
    /\ state[v] = "solving_captcha"
    /\ StateClear(v)
    /\ UNCHANGED <<task, dbVars, dbq, sideVars>>

\* ignore_during_captcha: a message that no handler of the routers before
\* the vote router takes (plain text) from a voter in solving_captcha is
\* answered with "solve the captcha first".
IgnoreDuringCaptcha(v) ==
    /\ state[v] = "solving_captcha"
    /\ UNCHANGED vars

\* cmd_start: await state.clear(); db.get_user(); db.add_user() up to its
\* INSERT INTO users.
CmdStart(t, v) ==
    /\ Free(t)
    /\ StateClear(v)
    /\ task' = [task EXCEPT ![t] =
                   [IdleTask EXCEPT !.kind = "start", !.pc = "st_commit", !.voter = v]]
    /\ UNCHANGED dbVars
    /\ UNCHANGED sideVars
    /\ Queue(t)

\* add_user: await self.db.commit(); the rest of cmd_start shows a menu or
\* the poll.
StCommit(t) ==
    /\ task[t].pc = "st_commit"
    /\ Turn(t)
    /\ DbCommit
    /\ task' = [RowsTo("committed") EXCEPT ![t] = Ending(@, "menu")]
    /\ UNCHANGED <<sessVars, histVars>>
    /\ UNCHANGED sideVars
    /\ Queue(t)

\* ------------------------------------------------------ Database.delete_poll
\* cb_confirm_delete / cb_admin_confirm_delete: db.get_poll(), then
\* delete_poll up to its UPDATE.
DeletePoll(t, p) ==
    /\ Free(t)
    /\ task' = [task EXCEPT ![t] =
                   [IdleTask EXCEPT !.kind = "delete", !.pc = "dp_update", !.poll = p]]
    /\ UNCHANGED <<dbVars, sessVars, histVars>>
    /\ UNCHANGED sideVars
    /\ Queue(t)

\* UPDATE polls SET is_active = 0 WHERE poll_id = ?
DpUpdate(t) ==
    /\ task[t].pc = "dp_update"
    /\ Turn(t)
    /\ pendingInactive' = pendingInactive \cup {task[t].poll}
    /\ task' = [task EXCEPT ![t] = [@ EXCEPT !.pc = "dp_commit"]]
    /\ UNCHANGED <<votes, pending, inactive, sessVars, histVars>>
    /\ UNCHANGED sideVars
    /\ Queue(t)

\* await self.db.commit(); return cursor.rowcount > 0
DpCommit(t) ==
    /\ task[t].pc = "dp_commit"
    /\ Turn(t)
    /\ DbCommit
    /\ task' = [RowsTo("committed") EXCEPT ![t] = Ending(@, "deleted")]
    /\ UNCHANGED <<sessVars, histVars>>
    /\ UNCHANGED sideVars
    /\ Queue(t)

\* ------------------------------------------------------- the specifications
\* The steps of the running handlers.
Step(t) ==
    \/ VoHasVoted(t)
    \/ VoGetPoll(t)
    \/ \E a \in Answers : ScGen(t, a)
    \/ ScShowOk(t)
    \/ ScShowFail(t)
    \/ CaGetPoll(t)
    \/ AvInsertOk(t)
    \/ AvInsertUnique(t)
    \/ \E e \in StorageErrors : AvInsertFail(t, e)
    \/ AvCommitOk(t)
    \/ \E e \in StorageErrors : AvCommitFail(t, e)
    \/ AvRollbackOk(t)
    \/ AvRollbackFail(t)
    \/ AvSleep(t)
    \/ CaCounts(t)
    \/ CaTotal(t)
    \/ CaNumber(t)
    \/ CaReadFail(t)
    \/ CaResultOk(t)
    \/ CaResultFail(t)
    \/ CaLog(t)
    \/ CaRejectOk(t)
    \/ CaRejectFail(t)
    \/ Finish(t)
    \/ StCommit(t)
    \/ DpUpdate(t)
    \/ DpCommit(t)

\* The steps of the running handlers when the storage raises nothing but the
\* constraint violation: no INSERT, commit or rollback fails, so add_vote
\* never retries.
QuietStep(t) ==
    \/ VoHasVoted(t)
    \/ VoGetPoll(t)
    \/ \E a \in Answers : ScGen(t, a)
    \/ ScShowOk(t)
    \/ ScShowFail(t)
    \/ CaGetPoll(t)
    \/ AvInsertOk(t)
    \/ AvInsertUnique(t)
    \/ AvCommitOk(t)
    \/ AvRollbackOk(t)
    \/ CaCounts(t)
    \/ CaTotal(t)
    \/ CaNumber(t)
    \/ CaReadFail(t)
    \/ CaResultOk(t)
    \/ CaResultFail(t)
    \/ CaLog(t)
    \/ CaRejectOk(t)
    \/ CaRejectFail(t)
    \/ Finish(t)
    \/ StCommit(t)
    \/ DpUpdate(t)
    \/ DpCommit(t)

\* Updates are handled as concurrent tasks: an event of a voter is accepted
\* whatever the voter's other handlers are doing.  The storage does not fail
\* here; its failures are part of SpecSeq, SpecRace, SpecLedger and SpecCalls.
Next ==
    \/ \E t \in Tasks : QuietStep(t)
    \/ \E t \in Tasks, v \in Challengers, p \in HotPolls, o \in Options : BeginVote(t, v, p, o)
    \/ \E t \in Tasks, v \in Challengers, sel \in Answers : SubmitAnswer(t, v, sel)
    \/ \E t \in Tasks, v \in Challengers, sel \in Answers : DropAnswer(t, v, sel)
    \/ \E v \in Challengers : Cancel(v)
    \/ \E v \in Challengers : IgnoreDuringCaptcha(v)
    \/ \E t \in Tasks, v \in Challengers : CmdStart(t, v)
    \/ \E t \in Tasks, p \in HotPolls : DeletePoll(t, p)

Spec == Init /\ [][Next]_vars

\* The steps of the vote flow alone, storage failures included.
RaceStep(t) ==
    \/ VoHasVoted(t)
    \/ VoGetPoll(t)
    \/ \E a \in Answers : ScGen(t, a)
    \/ ScShowOk(t)
    \/ ScShowFail(t)
    \/ CaGetPoll(t)
    \/ AvInsertOk(t)
    \/ AvInsertUnique(t)
    \/ \E e \in StorageErrors : AvInsertFail(t, e)
    \/ AvCommitOk(t)
    \/ \E e \in StorageErrors : AvCommitFail(t, e)
    \/ AvRollbackOk(t)
    \/ AvRollbackFail(t)
    \/ AvSleep(t)
    \/ CaCounts(t)
    \/ CaTotal(t)
    \/ CaNumber(t)
    \/ CaReadFail(t)
    \/ CaResultOk(t)
    \/ CaResultFail(t)
    \/ CaLog(t)
    \/ CaRejectOk(t)
    \/ CaRejectFail(t)
    \/ Finish(t)

\* A voter who taps an answer more than once: the answer submissions are
\* handled concurrently, and a new vote intent arrives when no handler of the
\* voter is in flight.
NextRace ==
    \/ \E t \in Tasks : RaceStep(t)
    \/ \E t \in Tasks, v \in Challengers, p \in HotPolls, o \in Options :
          ~InFlight(v) /\ BeginVote(t, v, p, o)
    \/ \E t \in Tasks, v \in Challengers, sel \in Answers : SubmitAnswer(t, v, sel)

SpecRace == Init /\ [][NextRace]_vars

\* The same program when each voter's events arrive one at a time: an event
\* of a voter is accepted only when no handler of that voter is in flight.
NextSeq ==
    \/ \E t \in Tasks : Step(t)
    \/ \E t \in Tasks, v \in Challengers, p \in PollIds, o \in Options :
          ~InFlight(v) /\ BeginVote(t, v, p, o)
    \/ \E t \in Tasks, v \in Challengers, sel \in Answers :
          ~InFlight(v) /\ SubmitAnswer(t, v, sel)
    \/ \E t \in Tasks, v \in Challengers, sel \in Answers :
          ~InFlight(v) /\ DropAnswer(t, v, sel)
    \/ \E v \in Challengers : ~InFlight(v) /\ Cancel(v)
    \/ \E v \in Challengers : ~InFlight(v) /\ IgnoreDuringCaptcha(v)
    \/ \E t \in Tasks, v \in Challengers : ~InFlight(v) /\ CmdStart(t, v)
    \/ \E t \in Tasks, p \in HotPolls : DeletePoll(t, p)

SpecSeq == Init /\ [][NextSeq]_vars

\* The Database component under concurrent callers: add_vote and delete_poll
\* calls of any voters, with any arguments, on the shared connection.
LedgerStep(t) ==
    \/ AvInsertOk(t)
    \/ AvInsertUnique(t)
    \/ \E e \in StorageErrors : AvInsertFail(t, e)
    \/ AvCommitOk(t)
    \/ \E e \in StorageErrors : AvCommitFail(t, e)
    \/ AvRollbackOk(t)
    \/ AvRollbackFail(t)
    \/ AvSleep(t)
    \/ Finish(t)
    \/ DpUpdate(t)
    \/ DpCommit(t)

NextLedger ==
    \/ \E t \in Tasks : LedgerStep(t)
    \/ \E t \in Tasks, p \in HotPolls, v \in Voters, o \in Options : CallAddVote(t, p, v, o)
    \/ \E t \in Tasks, p \in HotPolls : DeletePoll(t, p)

SpecLedger == Init /\ [][NextLedger]_vars

\* add_vote under concurrent callers when every call on the connection
\* comes back (it returns or it raises) and every sleep ends: a coroutine
\* that can take a step takes it.
CallStep(t) ==
    \/ AvInsertOk(t)
    \/ AvInsertUnique(t)
    \/ \E e \in StorageErrors : AvInsertFail(t, e)
    \/ AvCommitOk(t)
    \/ \E e \in StorageErrors : AvCommitFail(t, e)
    \/ AvRollbackOk(t)
    \/ AvRollbackFail(t)
    \/ AvSleep(t)
    \/ Finish(t)

NextCalls ==
    \/ \E t \in Tasks : CallStep(t)
    \/ \E t \in Tasks, p \in HotPolls, v \in Challengers, o \in Options :
          CallAddVote(t, p, v, o)

SpecCalls ==
    /\ Init
    /\ [][NextCalls]_vars
    /\ \A t \in Tasks : WF_vars(CallStep(t))

\* No call on the database is running.
Quiet == \A u \in Tasks : task[u].kind = "idle"

\* The Database component when its callers address every poll, one call at
\* a time.
TallyStep(t) ==
    \/ AvInsertOk(t)
    \/ AvInsertUnique(t)
    \/ \E e \in StorageErrors : AvInsertFail(t, e)
    \/ AvCommitOk(t)
    \/ \E e \in StorageErrors : AvCommitFail(t, e)
    \/ AvRollbackOk(t)
    \/ AvRollbackFail(t)
    \/ AvSleep(t)
    \/ Finish(t)

NextTally ==
    \/ \E t \in Tasks : TallyStep(t)
    \/ \E t \in Tasks, p \in Polls, v \in Voters, o \in Options :
          Quiet /\ CallAddVote(t, p, v, o)

SpecTally == Init /\ [][NextTally]_vars

\* The voting handlers of several voters, their steps interleaved in any
\* order; each voter's own events arrive one at a time and the storage does
\* not fail (sending the result message may).
PairStep(t) ==
    \/ VoHasVoted(t)
    \/ VoGetPoll(t)
    \/ \E a \in Answers : ScGen(t, a)
    \/ ScShowOk(t)
    \/ CaGetPoll(t)
    \/ AvInsertOk(t)
    \/ AvInsertUnique(t)
    \/ AvCommitOk(t)
    \/ AvRollbackOk(t)
    \/ CaCounts(t)
    \/ CaTotal(t)
    \/ CaNumber(t)
    \/ CaResultOk(t)
    \/ CaResultFail(t)
    \/ CaLog(t)
    \/ CaRejectOk(t)
    \/ Finish(t)

NextPair ==
    \/ \E t \in Tasks : PairStep(t)
    \/ \E t \in Tasks, v \in Voters, p \in HotPolls, o \in Options :
          ~InFlight(v) /\ BeginVote(t, v, p, o)
    \/ \E t \in Tasks, v \in Voters, sel \in Answers :
          ~InFlight(v) /\ SubmitAnswer(t, v, sel)
    \/ \E v \in Voters : ~InFlight(v) /\ Cancel(v)
    \/ \E v \in Voters : ~InFlight(v) /\ IgnoreDuringCaptcha(v)

SpecPair == Init /\ [][NextPair]_vars

\* ------------------------------------------- generate_captcha_image, its run
\* What a run of generate_captcha_image leaves alone.
botVars == <<sessVars, dbVars, task, dbq, histVars>>
genFrame == <<botVars, authorVars, adminVars, connVars>>

\* random.randint(1, 50), for a and for b of an addition
AddOperands == 1..50
\* a = random.randint(10, 60) of a subtraction
SubFirst == 10..60
\* b = random.randint(1, a) of a subtraction
SubSecond_Free(a) == 1..60
SubSecond(a) == 1..a
\* random.randint(2, 12), for a and for b of a multiplication
MulOperands == 2..12

\* op = random.choice(["+", "-", "x"]) and the operands drawn for it ("*"
\* stands for the multiplication sign).
Drawn ==
    {[GenIdle EXCEPT !.pc = "drawn", !.op = "+", !.a = x, !.b = y] :
         x \in AddOperands, y \in AddOperands}
    \cup UNION {{[GenIdle EXCEPT !.pc = "drawn", !.op = "-", !.a = x, !.b = y] :
                    y \in SubSecond(x)} : x \in SubFirst}
    \cup {[GenIdle EXCEPT !.pc = "drawn", !.op = "*", !.a = x, !.b = y] :
             x \in MulOperands, y \in MulOperands}

\* answer = a + b | answer = a - b | answer = a * b
Apply(op, x, y) == IF op = "+" THEN x + y ELSE IF op = "-" THEN x - y ELSE x * y

GenAnswer ==
    /\ gen.pc = "drawn"
    /\ gen' = [gen EXCEPT !.pc = "computed", !.answer = Apply(gen.op, gen.a, gen.b)]
    /\ UNCHANGED genFrame

\* random.randint(1, 10)
Magnitudes_Wide == 1..11
Magnitudes_One == 1..1
Magnitudes == 1..10
\* random.choice([-1, 1])
Signs == {-1, 1}

\* if w != answer and w >= 0 and w not in wrong
Acceptable_Signed(w, answer, wrong) == w # answer /\ w \notin wrong
Acceptable(w, answer, wrong) == w # answer /\ w >= 0 /\ w \notin wrong

\* One turn of "while len(wrong) < 3": diff = k * sg; w = answer + diff;
\* wrong.add(w) when w is acceptable.
GenDecoy(k, sg) ==
    LET w == gen.answer + k * sg
    IN  /\ gen.pc \in {"computed", "decoys"}
        /\ Cardinality(gen.wrong) < 3
        /\ gen' = IF Acceptable(w, gen.answer, gen.wrong)
                  THEN [gen EXCEPT !.pc = "decoys", !.op = "", !.a = NoneVal,
                                   !.b = NoneVal, !.wrong = @ \cup {w}]
                  ELSE gen
        /\ UNCHANGED genFrame

\* list(wrong): the elements of the set, each once, in some order.
ListOf(S) ==
    CHOOSE q \in [1..Cardinality(S) -> S] : \A x \in S : \E i \in DOMAIN q : q[i] = x

\* The orders random.shuffle can leave a list of n elements in.
Shuffles(n) == {p \in [1..n -> 1..n] : \A i, j \in 1..n : p[i] = p[j] => i = j}

\* options = list(wrong) + [answer]; random.shuffle(options), which leaves
\* the 4 options in the order p; the image is drawn and
\* (png_bytes, answer, options) returned.
GenShuffle(p) ==
    LET options == Append(ListOf(gen.wrong), gen.answer)
    IN  /\ gen.pc = "decoys"
        /\ Cardinality(gen.wrong) = 3
        /\ gen' = [gen EXCEPT !.pc = "returned", !.wrong = {},
                              !.options = [i \in 1..Len(options) |-> options[p[i]]]]
        /\ UNCHANGED genFrame

\* One call of generate_captcha_image, for every value its draws can take.
InitCaptcha ==
    /\ BotInit
    /\ gen \in Drawn

NextCaptcha ==
    \/ GenAnswer
    \/ \E k \in Magnitudes, sg \in Signs : GenDecoy(k, sg)
    \/ \E p \in Shuffles(4) : GenShuffle(p)

SpecCaptcha == InitCaptcha /\ [][NextCaptcha]_vars

\* The decoy loop alone: "while len(wrong) < 3" after the answer has been
\* computed.  The draws are random and independent, so a loop that keeps
\* turning while some draw would add a decoy does draw such a value at some
\* time: weak fairness on the turns that add one.
AddDecoy == \E k \in Magnitudes, sg \in Signs : GenDecoy(k, sg)

NextDecoys ==
    \/ GenAnswer
    \/ \E k \in Magnitudes, sg \in Signs : GenDecoy(k, sg)

SpecDecoys == InitCaptcha /\ [][NextDecoys]_vars /\ WF_vars(AddDecoy)

\* The values the loop can still add: answer + diff, acceptable.
Admissible ==
    {w \in {gen.answer + k * sg : k \in Magnitudes, sg \in Signs} :
        Acceptable(w, gen.answer, gen.wrong)}

\* ------------------------------------------------ poll authoring (poll.py)
\* What the authoring handlers leave alone.
authorFrame == <<botVars, gen, adminVars, connVars>>

\* The texts of the creator's messages (F.text: never empty), one of them
\* blank.
Texts == {"a", "b", " "}

\* message.text.strip()
Strip(txt) == IF txt = " " THEN "" ELSE txt

\* The first free handler slot.
AFree(t) ==
    /\ atask[t].pc = "idle"
    /\ \A u \in AuthorTasks : u < t => atask[u].pc # "idle"

\* cb_new_poll: set_state(waiting_question); the data stay.
NewPoll ==
    /\ astate' = "waiting_question"
    /\ UNCHANGED <<adata, atask, polls, typed>>
    /\ UNCHANGED authorFrame

\* cb_cancel_poll: state.clear()
CancelPoll ==
    /\ astate' = "none"
    /\ adata' = EmptyAuthoring
    /\ typed' = <<>>
    /\ UNCHANGED <<atask, polls>>
    /\ UNCHANGED authorFrame

\* receive_question: an empty question is refused; otherwise
\* update_data(question=question, options=[]) and
\* set_state(waiting_options).
ReceiveQuestion(txt) ==
    LET question == Strip(txt)
    IN  /\ astate = "waiting_question"
        /\ IF question = ""
           THEN UNCHANGED <<astate, adata, typed>>
           ELSE /\ adata' = [question |-> question, hasOptions |-> TRUE,
                             options |-> <<>>]
                /\ astate' = "waiting_options"
                /\ typed' = <<>>
        /\ UNCHANGED <<atask, polls>>
        /\ UNCHANGED authorFrame

\* receive_option: options = data.get("options", []); an empty label is
\* refused; otherwise options.append(new_opt) and update_data(options=options).
ReceiveOption(txt) ==
    LET new_opt == Strip(txt)
    IN  /\ astate = "waiting_options"
        /\ Len(adata.options) < MaxLabels
        /\ IF new_opt = ""
           THEN UNCHANGED <<adata, typed>>
           ELSE /\ adata' = [adata EXCEPT !.hasOptions = TRUE,
                                          !.options = Append(@, new_opt)]
                /\ typed' = Append(typed, new_opt)
        /\ UNCHANGED <<astate, atask, polls>>
        /\ UNCHANGED authorFrame

\* if len(options) < 2
TooFew(options) == Len(options) < 2

\* cb_done_options: fewer than 2 options: an alert; otherwise
\* set_state(waiting_log_choice).
DoneOptions ==
    /\ astate = "waiting_options"
    /\ astate' = IF TooFew(adata.options) THEN astate ELSE "waiting_log_choice"
    /\ UNCHANGED <<adata, atask, polls, typed>>
    /\ UNCHANGED authorFrame

\* cb_log_yes: set_state(waiting_log_channel)
LogYes ==
    /\ astate = "waiting_log_choice"
    /\ astate' = "waiting_log_channel"
    /\ UNCHANGED <<adata, atask, polls, typed>>
    /\ UNCHANGED authorFrame

\* if not question or not options
Lost(d) == d.question \in {Absent, ""} \/ ~d.hasOptions \/ d.options = <<>>

\* _create_and_send_poll up to Database.get_instance(): data =
\* state.get_data(); when the question or the options are gone,
\* state.clear() and return; otherwise the handler goes on to create_poll
\* with the question and the options it has read.
CreateAndSend(t) ==
    IF Lost(adata)
    THEN /\ astate' = "none"
         /\ adata' = EmptyAuthoring
         /\ typed' = <<>>
         /\ atask' = [atask EXCEPT ![t] = IdleAuthor]
    ELSE /\ atask' = [atask EXCEPT ![t] =
                         [pc |-> "create", question |-> adata.question,
                          options |-> adata.options, entered |-> typed]]
         /\ UNCHANGED <<astate, adata, typed>>

\* cb_log_no: _create_and_send_poll(callback, state, bot, log_channel=None)
LogNo(t) ==
    /\ astate = "waiting_log_choice"
    /\ AFree(t)
    /\ CreateAndSend(t)
    /\ UNCHANGED polls
    /\ UNCHANGED authorFrame

\* receive_log_channel up to its first await: _resolve_channel(raw, bot)
ReceiveLogChannel(t) ==
    /\ astate = "waiting_log_channel"
    /\ AFree(t)
    /\ atask' = [atask EXCEPT ![t] = [IdleAuthor EXCEPT !.pc = "resolve"]]
    /\ UNCHANGED <<astate, adata, polls, typed>>
    /\ UNCHANGED authorFrame

\* _resolve_channel and bot.get_chat_member return.  No channel, or the bot
\* is no administrator of it: a message and return.  Otherwise
\* update_data(log_channel_id=channel_id) and _create_and_send_poll.
RlcResolved(t, ok) ==
    /\ atask[t].pc = "resolve"
    /\ IF ok THEN CreateAndSend(t)
             ELSE /\ atask' = [atask EXCEPT ![t] = IdleAuthor]
                  /\ UNCHANGED <<astate, adata, typed>>
    /\ UNCHANGED polls
    /\ UNCHANGED authorFrame

\* db.create_poll(poll_id, creator_id, question, options, log_channel)
\* returns; state.clear(); the link is shown.
CreatePollOk(t) ==
    /\ atask[t].pc = "create"
    /\ Len(polls) < MaxStored
    /\ polls' = Append(polls, [question |-> atask[t].question,
                               options |-> atask[t].options,
                               entered |-> atask[t].entered])
    /\ astate' = "none"
    /\ adata' = EmptyAuthoring
    /\ typed' = <<>>
    /\ atask' = [atask EXCEPT ![t] = IdleAuthor]
    /\ UNCHANGED authorFrame

\* Database.get_instance() or db.create_poll raises: the exception leaves
\* the handler.
CreatePollFail(t) ==
    /\ atask[t].pc = "create"
    /\ atask' = [atask EXCEPT ![t] = IdleAuthor]
    /\ UNCHANGED <<astate, adata, polls, typed>>
    /\ UNCHANGED authorFrame

\* The authoring events of the creator, handled as concurrent tasks.
NextAuthoring ==
    \/ NewPoll
    \/ CancelPoll
    \/ \E txt \in Texts : ReceiveQuestion(txt)
    \/ \E txt \in Texts : ReceiveOption(txt)
    \/ DoneOptions
    \/ LogYes
    \/ \E t \in AuthorTasks : LogNo(t)
    \/ \E t \in AuthorTasks : ReceiveLogChannel(t)
    \/ \E t \in AuthorTasks, ok \in BOOLEAN : RlcResolved(t, ok)
    \/ \E t \in AuthorTasks : CreatePollOk(t)
    \/ \E t \in AuthorTasks : CreatePollFail(t)

SpecAuthoring == Init /\ [][NextAuthoring]_vars

\* ------------------------------------------------------------------ claims
\* The rows of (p, v) among the rows R.
RowsOf(R, p, v) == {r \in R : r.poll = p /\ r.user = v}

\* --------------------------------------------- broadcast (broadcast.py)
\* What the broadcast handlers leave alone.
adminFrame == <<botVars, gen, authorVars, connVars>>

\* The loop of broadcast b is running: _cancel_flags has been set to False
\* and the final message has not been composed.
Running(b) == bc[b].pc \in {"loop", "deliver"}

\* cb_broadcast_send, entered in the state waiting_type (the admin has sent
\* the message to broadcast and chosen forward or copy): get_data,
\* state.clear(), Database.get_instance(), up to db.get_all_user_ids().
BcSend(b) ==
    /\ bc[b].pc = "idle"
    /\ \A u \in Broadcasts : u < b => bc[u].pc # "idle"
    /\ bc' = [bc EXCEPT ![b] = [IdleBroadcast EXCEPT !.pc = "users"]]
    /\ UNCHANGED cancelFlags
    /\ UNCHANGED adminFrame

\* user_ids is there: _cancel_flags[admin] = False, then the progress
\* message (edit_text) and callback.answer(), after which the loop begins.
BcUsers(b) ==
    /\ bc[b].pc = "users"
    /\ cancelFlags' = "false"
    /\ bc' = [bc EXCEPT ![b] = [@ EXCEPT !.pc = "loop", !.i = 0]]
    /\ UNCHANGED adminFrame

\* The loop has run out of users, or "if _cancel_flags.get(admin): break".
LoopEnds(b) == bc[b].i = NumUsers \/ cancelFlags = "true"

\* One turn of "for i, uid in enumerate(user_ids)": the loop ends, and then
\* cancelled = _cancel_flags.pop(admin, False) chooses the status of the
\* final message; or forward_message / copy_message to the next user begins.
BcNext(b) ==
    /\ bc[b].pc = "loop"
    /\ IF LoopEnds(b)
       THEN /\ bc' = [bc EXCEPT ![b] =
                         [@ EXCEPT !.pc = "done",
                                   !.status = IF cancelFlags = "true"
                                              THEN "cancelled" ELSE "completed"]]
            /\ cancelFlags' = "absent"
       ELSE /\ bc' = [bc EXCEPT ![b] = [@ EXCEPT !.pc = "deliver"]]
            /\ UNCHANGED cancelFlags
    /\ UNCHANGED adminFrame

\* The delivery returns or raises (success += 1 or failed += 1): either way
\* the loop goes on with the next user.
BcDelivered(b) ==
    /\ bc[b].pc = "deliver"
    /\ bc' = [bc EXCEPT ![b] = [@ EXCEPT !.pc = "loop", !.i = @ + 1]]
    /\ UNCHANGED cancelFlags
    /\ UNCHANGED adminFrame

\* The final edit_text returns or fails; the handler is over.
BcReturn(b) ==
    /\ bc[b].pc = "done"
    /\ bc' = [bc EXCEPT ![b] = IdleBroadcast]
    /\ UNCHANGED cancelFlags
    /\ UNCHANGED adminFrame

\* cb_broadcast_stop: _cancel_flags[admin] = True
BcStop ==
    /\ cancelFlags' = "true"
    /\ bc' = [b \in Broadcasts |->
                 IF Running(b) THEN [bc[b] EXCEPT !.stopped = TRUE] ELSE bc[b]]
    /\ UNCHANGED adminFrame

NextBroadcast ==
    \/ \E b \in Broadcasts : BcSend(b)
    \/ \E b \in Broadcasts : BcUsers(b)
    \/ \E b \in Broadcasts : BcNext(b)
    \/ \E b \in Broadcasts : BcDelivered(b)
    \/ \E b \in Broadcasts : BcReturn(b)
    \/ BcStop

SpecBroadcast == Init /\ [][NextBroadcast]_vars

\* ------------------------------------- Database.get_instance (database.py)
\* What get_instance leaves alone.
connFrame == <<botVars, gen, authorVars, adminVars>>

\* The connection of the installed object answers SELECT 1.
Live == conn.instance # 0 /\ conn.instance \notin conn.dead

\* Caller c holds the lock, the code before having left k (a record like
\* conn) behind, and runs the second check: SELECT 1 on the installed
\* object, or inst = cls() and inst.connect().
Locked(c, k) ==
    /\ conn' = [k EXCEPT !.lock = c]
    /\ gi' = [gi EXCEPT ![c] = IF k.instance # 0
                               THEN [@ EXCEPT !.pc = "slow_probe", !.probe = k.instance]
                               ELSE [@ EXCEPT !.pc = "connect", !.probe = 0]]

\* "async with cls._lock": asyncio.Lock.acquire takes a free lock without
\* suspending when nobody waits for it; otherwise the caller joins the
\* waiters.
EnterLock(c, k) ==
    IF k.lock = 0 /\ k.waiters = <<>>
    THEN Locked(c, k)
    ELSE /\ conn' = [k EXCEPT !.waiters = Append(@, c)]
         /\ gi' = [gi EXCEPT ![c] = [@ EXCEPT !.pc = "lock", !.probe = 0]]

\* get_instance is called while no live instance exists.  With an object
\* installed (its db is set) the fast path awaits SELECT 1 on it; with none
\* the caller goes to the lock.
GiCall(c) ==
    /\ gi[c].pc = "idle"
    /\ ~Live
    /\ IF conn.instance # 0
       THEN /\ gi' = [gi EXCEPT ![c] = [@ EXCEPT !.pc = "fast_probe",
                                                 !.probe = conn.instance]]
            /\ UNCHANGED conn
       ELSE EnterLock(c, conn)
    /\ UNCHANGED connFrame

\* The SELECT 1 of the fast path comes back: return cls._instance, whatever
\* it is by now; or except Exception: cls._instance = None, then the lock.
GiFastProbe(c) ==
    /\ gi[c].pc = "fast_probe"
    /\ IF gi[c].probe \notin conn.dead
       THEN /\ gi' = [gi EXCEPT ![c] = [@ EXCEPT !.pc = "returned", !.probe = 0,
                                                 !.got = conn.instance]]
            /\ UNCHANGED conn
       ELSE EnterLock(c, [conn EXCEPT !.instance = 0])
    /\ UNCHANGED connFrame

\* The lock has been released and c is the first waiter: it holds the lock
\* and runs the second check.
GiAcquire(c) ==
    /\ gi[c].pc = "lock"
    /\ conn.lock = 0
    /\ conn.waiters # <<>> /\ Head(conn.waiters) = c
    /\ Locked(c, [conn EXCEPT !.waiters = Tail(@)])
    /\ UNCHANGED connFrame

\* The SELECT 1 under the lock comes back: return cls._instance (the lock is
\* released); or cls._instance = None, inst = cls() and inst.connect().
GiSlowProbe(c) ==
    /\ gi[c].pc = "slow_probe"
    /\ IF gi[c].probe \notin conn.dead
       THEN /\ gi' = [gi EXCEPT ![c] = [@ EXCEPT !.pc = "returned", !.probe = 0,
                                                 !.got = conn.instance]]
            /\ conn' = [conn EXCEPT !.lock = 0]
       ELSE /\ gi' = [gi EXCEPT ![c] = [@ EXCEPT !.pc = "connect", !.probe = 0]]
            /\ conn' = [conn EXCEPT !.instance = 0]
    /\ UNCHANGED connFrame

\* inst.connect() has opened the connection and run its statements:
\* cls._instance = inst; the lock is released; return cls._instance.
GiConnect(c) ==
    /\ gi[c].pc = "connect"
    /\ conn.created < MaxInstances
    /\ conn' = [conn EXCEPT !.instance = conn.created + 1,
                            !.created = @ + 1, !.opened = @ + 1, !.lock = 0]
    /\ gi' = [gi EXCEPT ![c] = [@ EXCEPT !.pc = "returned", !.got = conn.created + 1]]
    /\ UNCHANGED connFrame

\* With no call in progress the connection of the installed object is lost;
\* the calls that follow are the next round of callers.
ConnDies ==
    /\ Live
    /\ \A c \in Callers : gi[c].pc \in {"idle", "returned"}
    /\ conn.created + NumCallers <= MaxInstances
    /\ conn' = [conn EXCEPT !.dead = @ \cup {conn.instance}, !.opened = 0]
    /\ gi' = [c \in Callers |-> IdleCall]
    /\ UNCHANGED connFrame

NextInstance ==
    \/ \E c \in Callers : GiCall(c)
    \/ \E c \in Callers : GiFastProbe(c)
    \/ \E c \in Callers : GiAcquire(c)
    \/ \E c \in Callers : GiSlowProbe(c)
    \/ \E c \in Callers : GiConnect(c)
    \/ ConnDies

SpecInstance == Init /\ [][NextInstance]_vars

\* ------------------------------------------------ vote intents as they arrive
\* option_index = int(parts[2]): the index is whatever integer the callback
\* data carries, not only an index of a button the bot has shown.
Indices == 0..NumOptions

\* One voter's events, handled one at a time, with every index a callback
\* can carry.
NextIntent ==
    \/ \E t \in Tasks : Step(t)
    \/ \E t \in Tasks, v \in Challengers, p \in HotPolls, o \in Indices :
          ~InFlight(v) /\ BeginVote(t, v, p, o)
    \/ \E t \in Tasks, v \in Challengers, sel \in Answers :
          ~InFlight(v) /\ SubmitAnswer(t, v, sel)
    \/ \E t \in Tasks, v \in Challengers, sel \in Answers :
          ~InFlight(v) /\ DropAnswer(t, v, sel)
    \/ \E v \in Challengers : ~InFlight(v) /\ Cancel(v)
    \/ \E t \in Tasks, v \in Challengers : ~InFlight(v) /\ CmdStart(t, v)
    \/ \E t \in Tasks, p \in HotPolls : DeletePoll(t, p)

SpecIntent == Init /\ [][NextIntent]_vars


\* C1: in every reachable state the votes table holds at most one row per
\* (poll, voter), committed or in the open transaction, whatever add_vote
\* calls have run, been retried or interleaved.
C1_AtMostOneVotePerVoter ==
    \A r1, r2 \in Visible : (r1.poll = r2.poll /\ r1.user = r2.user) => r1 = r2

\* Two calls for the same (poll, voter) are in the task slots: the row of one
\* is committed, the insert of the other was refused by the constraint.
C1_Witness ==
    \E t1, t2 \in Tasks :
        /\ t1 # t2
        /\ task[t1].kind = "ledger" /\ task[t2].kind = "ledger"
        /\ task[t1].poll = task[t2].poll /\ task[t1].voter = task[t2].voter
        /\ task[t1].rowState = "committed"
        /\ task[t2].lastErr = UniqueMsg
        /\ Cardinality(RowsOf(votes, task[t1].poll, task[t1].voter)) = 1

\* C2: when two add_vote calls for the same (poll, voter) have overlapped and
\* both have returned, neither with a storage failure, they have not both
\* returned True, and if one of them has returned True exactly one committed
\* row of (poll, voter) exists (the total went up by one).
C2_ExactlyOneAccepted ==
    \A t1, t2 \in Tasks :
        ( /\ t1 # t2
          /\ task[t1].pc = "returned" /\ task[t2].pc = "returned"
          /\ task[t1].poll = task[t2].poll /\ task[t1].voter = task[t2].voter
          /\ task[t1].peer /\ task[t2].peer
          /\ \A t \in {t1, t2} : task[t].result = "false" => task[t].lastErr = UniqueMsg )
        => /\ ~(task[t1].result = "true" /\ task[t2].result = "true")
           /\ (task[t1].result = "true" \/ task[t2].result = "true")
                 => Cardinality(RowsOf(votes, task[t1].poll, task[t1].voter)) = 1

\* C3: when add_vote has returned True for (poll, voter, option), a committed
\* row (poll, voter, option) exists.
C3_AcceptedIsCommitted ==
    \A t \in Tasks :
        (task[t].kind = "ledger" /\ task[t].result = "true")
        => \E r \in votes : /\ r.poll = task[t].poll
                            /\ r.user = task[t].voter
                            /\ r.opt = task[t].option

\* C4: cb_captcha_answer calls add_vote(poll, voter, option) only when the
\* voter holds a session whose target is (poll, option).
C4_CommitOnlyForSessionTarget ==
    [][\A t \in Tasks :
          (task[t].pc = "ca_get_poll" /\ task'[t].pc = "av_insert")
          => /\ state[task[t].voter] = "solving_captcha"
             /\ data[task[t].voter].poll_id = task'[t].poll
             /\ data[task[t].voter].option_index = task'[t].option]_vars

\* C5: when a voter's events arrive one at a time, a session that has seen
\* fewer than N correct answers has made no add_vote call, a session that has
\* seen exactly N has made exactly one, and a running call carries the
\* session's poll id, the voter's id and the session's option index.
C5_CommitExactlyAtNthCorrect ==
    /\ \A v \in Challengers :
          /\ credit[v] < CAPTCHA_COUNT => commits[v] = 0
          /\ credit[v] = CAPTCHA_COUNT => commits[v] = 1
    /\ \A t \in Tasks :
          (task[t].kind = "answer" /\ task[t].pc \in {"av_insert", "av_commit"})
          => /\ credit[task[t].voter] >= CAPTCHA_COUNT
             /\ state[task[t].voter] = "solving_captcha"
             /\ data[task[t].voter].poll_id = task[t].poll
             /\ data[task[t].voter].option_index = task[t].option

\* The N-th correct answer of a session has just called add_vote.
C5_Witness ==
    \E t \in Tasks :
        /\ task[t].kind = "answer" /\ task[t].pc = "av_insert" /\ task[t].attempt = 0
        /\ credit[task[t].voter] = CAPTCHA_COUNT
        /\ commits[task[t].voter] = 1
        /\ data[task[t].voter].captcha_solved = CAPTCHA_COUNT - 1

C7_SessionClearedAfterCommit ==
    \A t \in Tasks :
        ( /\ task[t].kind = "answer"
          /\ task[t].result # "none"
          /\ task[t].pc \in {"answer_cb", "raised"} )
        => /\ state[task[t].voter] = "none"
           /\ data[task[t].voter] = EmptyData

\* C8: the voter is told "you have already voted" after add_vote only when
\* the insert was refused by the uniqueness constraint.
C8_AlreadyVotedOnlyOnConflict ==
    \A t \in Tasks :
        (task[t].kind = "answer" /\ task[t].shown = "already_voted")
        => task[t].lastErr = UniqueMsg

\* C9: add_vote sleeps only after a lock-class error on its first or second
\* attempt, 300 ms after the first and 600 ms after the second; it makes at
\* most three attempts; it returns False right after the third failure or
\* after a failure of another class, with no sleep after that failure.
C9_RetryOnlyOnLock ==
    \A t \in Tasks :
        (task[t].kind = "ledger")
        => /\ task[t].attempt < AddVoteAttempts
           /\ task[t].pc = "av_sleep" =>
                 /\ ContainsLocked(task[t].lastErr)
                 /\ task[t].attempt < AddVoteAttempts - 1
           /\ Len(task[t].slept) = task[t].attempt
           /\ \A k \in 1..Len(task[t].slept) : task[t].slept[k] = 300 * k
           /\ task[t].result = "false" =>
                 \/ ~ContainsLocked(task[t].lastErr)
                 \/ task[t].attempt = AddVoteAttempts - 1

\* Three lock failures: two sleeps, 300 ms and 600 ms, then False.
C9_Witness ==
    \E t \in Tasks :
        /\ task[t].kind = "ledger" /\ task[t].pc = "returned"
        /\ task[t].result = "false"
        /\ task[t].lastErr = LockedMsg
        /\ task[t].attempt = 2
        /\ task[t].slept = <<300, 600>>

\* C10: when add_vote has returned False after a storage error, the row the
\* call inserted is neither committed nor left in the open transaction.
C10_FailureLeavesNoRow ==
    \A t \in Tasks :
        ( /\ task[t].kind = "ledger"
          /\ task[t].result = "false"
          /\ task[t].lastErr \in StorageErrors )
        => task[t].rowState = "none"

\* The voters with a row in poll p.
VotersOf(p) == {v \in Voters : RowsOf(Visible, p, v) # {}}

\* C11: in every poll the vote numbers of the voters that have a row are
\* pairwise different and are exactly 1..total of the poll, and of two rows
\* of a poll the one inserted earlier has the strictly smaller number.
C11_VoteNumbersAreARanking ==
    \A p \in Polls :
        /\ {GetVoteNumber(p, v) : v \in VotersOf(p)} = 1..GetTotalVotes(p)
        /\ \A v1, v2 \in VotersOf(p) :
              (GetVoteNumber(p, v1) = GetVoteNumber(p, v2)) => v1 = v2
        /\ \A r1, r2 \in Visible :
              (r1.poll = p /\ r2.poll = p /\ r1.id < r2.id)
              => GetVoteNumber(p, r1.user) < GetVoteNumber(p, r2.user)

\* A poll holds two rows whose ids are not consecutive, a row of the other
\* poll having been inserted between them: their numbers are 1 and 2.
C11_Witness ==
    \E p \in Polls, r1, r2, r3 \in Visible :
        /\ r1.poll = p /\ r3.poll = p /\ r2.poll # p
        /\ r1.id < r2.id /\ r2.id < r3.id
        /\ GetVoteNumber(p, r1.user) = 1
        /\ GetVoteNumber(p, r3.user) = 2
        /\ GetTotalVotes(p) = 2

\* The rows of poll p, and those of them inserted before the row of voter v.
PollRows(p) == {r \in Visible : r.poll = p}
Earlier(p, v) == {r \in PollRows(p) : \A s \in RowsOf(Visible, p, v) : r.id < s.id}

\* C12: after every step, the vote number of a voter with a row in a poll is
\* the position of that row among the poll's rows in insertion order (one
\* more than the number of the poll's rows inserted before it), and a step
\* that leaves the rows of a poll as they were (whatever it does to the rows
\* of other polls) leaves every vote number of that poll as it was.
C12_VoteNumberIsInsertionRank ==
    [][\A p \in Polls, v \in Voters :
          /\ (v \in VotersOf(p) => GetVoteNumber(p, v) = Cardinality(Earlier(p, v)) + 1)'
          /\ (PollRows(p)' = PollRows(p)) => GetVoteNumber(p, v)' = GetVoteNumber(p, v)]_vars

\* A voter holds number 1 in a poll although a row of the other poll was
\* inserted before theirs, and another voter holds number 2 in the same poll.
C12_Witness ==
    \E r, s, u \in Visible :
        /\ s.poll # r.poll /\ s.id < r.id
        /\ u.poll = r.poll /\ r.id < u.id
        /\ GetVoteNumber(r.poll, r.user) = 1
        /\ GetVoteNumber(u.poll, u.user) = 2
        /\ Cardinality(Earlier(u.poll, u.user)) = 1

\* C13: the count of the chosen option and the total that cb_captcha_answer
\* reads after add_vote returned True, and puts in the result message,
\* include the voter's vote.
C13_ReadsIncludeTheVote ==
    \A t \in Tasks :
        (task[t].kind = "answer" /\ task[t].result = "true")
        => /\ task[t].count # NoneVal => task[t].count >= 1
           /\ task[t].total # NoneVal => task[t].total >= 1

\* C14: when cb_vote_option finds, at has_voted, a committed vote of the
\* voter in the poll, it tells the voter they have already voted and ends:
\* the step changes neither the session nor the votes, and the only thing the
\* handler does afterwards is return (no puzzle, no add_vote).
C14_AlreadyVotedAtBegin ==
    [][\A t \in Tasks :
          /\ ( /\ task[t].kind = "vote" /\ task[t].pc = "vo_has_voted"
               /\ RowsOf(votes, task[t].poll, task[t].voter) # {}
               /\ task'[t] # task[t] )
             => /\ task'[t].pc = "answer_cb" /\ task'[t].shown = "already_voted"
                /\ UNCHANGED <<state, data, votes, pending>>
          /\ ( /\ task[t].kind = "vote" /\ task[t].shown = "already_voted"
               /\ task'[t] # task[t] )
             => /\ task'[t] = IdleTask
                /\ UNCHANGED <<state, data, votes, pending>>]_vars

\* A voter whose vote is committed pressed an option of the same poll, was
\* told so, and holds no session.
C14_Witness ==
    \E t \in Tasks :
        /\ task[t].kind = "vote" /\ task[t].shown = "already_voted"
        /\ RowsOf(votes, task[t].poll, task[t].voter) # {}
        /\ state[task[t].voter] = "none"
        /\ data[task[t].voter] = EmptyData

\* C15: when cb_vote_option finds, at get_poll, that the poll does not exist
\* or is inactive, it tells the voter the poll was not found and ends: the
\* step changes neither the session nor the votes, and the only thing the
\* handler does afterwards is return (no puzzle, no add_vote).
C15_NoPollAtBegin ==
    [][\A t \in Tasks :
          /\ ( /\ task[t].kind = "vote" /\ task[t].pc = "vo_get_poll"
               /\ (task[t].poll \notin Polls \/ task[t].poll \in inactive)
               /\ task'[t] # task[t] )
             => /\ task'[t].pc = "answer_cb" /\ task'[t].shown = "not_found"
                /\ UNCHANGED <<state, data, votes, pending>>
          /\ ( /\ task[t].kind = "vote" /\ task[t].shown = "not_found"
               /\ task'[t] # task[t] )
             => /\ task'[t] = IdleTask
                /\ UNCHANGED <<state, data, votes, pending>>]_vars

\* A voter in a session for one poll pressed an option of a poll that has
\* been deleted, was told it was not found, and the session is as it was.
C15_Witness ==
    \E t \in Tasks :
        /\ task[t].kind = "vote" /\ task[t].shown = "not_found"
        /\ task[t].poll \in inactive
        /\ state[task[t].voter] = "solving_captcha"
        /\ data[task[t].voter].poll_id \in Polls \ {task[t].poll}
        /\ data[task[t].voter].captcha_solved > 0

\* C16: when a voter's events arrive one at a time and cb_vote_option has
\* shown the first puzzle, the voter's state is solving_captcha and the data
\* hold the poll and the option of the callback, 0 rounds solved, and the
\* answer of the puzzle that was generated and shown.
C16_BeginVoteOpensRoundOne ==
    \A t \in Tasks :
        (task[t].kind = "vote" /\ task[t].pc = "answer_cb" /\ task[t].shown = "puzzle")
        => /\ state[task[t].voter] = "solving_captcha"
           /\ task[t].issued \in Answers
           /\ data[task[t].voter] = [poll_id |-> task[t].poll,
                                     option_index |-> task[t].option,
                                     captcha_solved |-> 0,
                                     captcha_answer |-> task[t].issued,
                                     captcha_msg_id |-> 1]

\* The first puzzle of a session for the second option has been shown.
C16_Witness ==
    \E t \in Tasks :
        /\ task[t].kind = "vote" /\ task[t].pc = "answer_cb" /\ task[t].shown = "puzzle"
        /\ task[t].option = NumOptions - 1
        /\ state[task[t].voter] = "solving_captcha"
        /\ data[task[t].voter].option_index = task[t].option
        /\ data[task[t].voter].captcha_solved = 0
        /\ data[task[t].voter].captcha_answer = task[t].issued

\* C17: a voter has one session (one state and one data record).  When a
\* voter's events arrive one at a time: a cb_vote_option that passes get_poll
\* while the voter is in a session leaves the voter in a session with the
\* poll and the option of the new callback and 0 rounds solved; the target
\* of a live session changes in no other way; and add_vote is called with
\* the target the session has at that moment, so never again for the target
\* that was replaced.
C17_BeginVoteReplacesSession ==
    [][/\ \A t \in Tasks :
            /\ ( /\ task[t].kind = "vote" /\ task[t].pc = "vo_get_poll"
                 /\ state[task[t].voter] = "solving_captcha"
                 /\ task'[t].pc = "sc_gen" )
               => /\ state'[task[t].voter] = "solving_captcha"
                  /\ data'[task[t].voter].poll_id = task[t].poll
                  /\ data'[task[t].voter].option_index = task[t].option
                  /\ data'[task[t].voter].captcha_solved = 0
            /\ (task[t].pc = "ca_get_poll" /\ task'[t].pc = "av_insert")
               => /\ state[task[t].voter] = "solving_captcha"
                  /\ task'[t].poll = data[task[t].voter].poll_id
                  /\ task'[t].option = data[task[t].voter].option_index
       /\ \A v \in Voters :
            ( /\ state[v] = "solving_captcha" /\ state'[v] = "solving_captcha"
              /\ <<data'[v].poll_id, data'[v].option_index>>
                    # <<data[v].poll_id, data[v].option_index>> )
            => \E t \in Tasks :
                  /\ task[t].kind = "vote" /\ task[t].voter = v
                  /\ task[t].pc = "vo_get_poll" /\ task'[t].pc = "sc_gen"
                  /\ data'[v].poll_id = task[t].poll
                  /\ data'[v].option_index = task[t].option]_vars

\* A session with rounds solved has just been replaced by one for the other
\* poll: the data still hold the answer of the old session's last puzzle,
\* the target is the new one and no round is solved.
C17_Witness ==
    \E t \in Tasks :
        /\ task[t].kind = "vote" /\ task[t].pc = "sc_gen"
        /\ task[t].poll = NumPolls
        /\ state[task[t].voter] = "solving_captcha"
        /\ data[task[t].voter].poll_id = task[t].poll
        /\ data[task[t].voter].option_index = task[t].option
        /\ data[task[t].voter].captcha_solved = 0
        /\ data[task[t].voter].captcha_answer \in Answers

\* C18: a "ca:" callback of a voter who is not in solving_captcha starts no
\* handler: the update is dropped, and neither its arrival nor its end
\* changes the sessions or the votes (no session, no puzzle, no add_vote).
C18_AnswerWithoutSession ==
    [][\A t \in Tasks :
          /\ ( /\ task[t].kind = "idle" /\ task'[t].kind = "answer"
               /\ state[task'[t].voter] # "solving_captcha" )
             => /\ task'[t].pc = "unhandled"
                /\ UNCHANGED <<state, data, votes, pending>>
          /\ (task[t].pc = "unhandled" /\ task'[t] # task[t])
             => /\ task'[t] = IdleTask
                /\ UNCHANGED <<state, data, votes, pending>>]_vars

\* A voter whose vote is committed and whose session is over pressed a button
\* of an old puzzle: the update is dropped and the voter has no session.
C18_Witness ==
    \E t \in Tasks :
        /\ task[t].kind = "answer" /\ task[t].pc = "unhandled"
        /\ state[task[t].voter] = "none"
        /\ data[task[t].voter] = EmptyData
        /\ \E r \in votes : r.user = task[t].voter

\* C19: while a voter is in solving_captcha, an input of that voter that is
\* not a captcha answer (a text message, /cancel, main_menu, /start) leaves
\* the voter's state and data as they were.
C19_OtherInputKeepsSession ==
    [][\A v \in Voters :
          ( /\ state[v] = "solving_captcha"
            /\ \/ task' = task
               \/ \E t \in Tasks : /\ task[t].kind = "idle"
                                    /\ task'[t].kind = "start"
                                    /\ task'[t].voter = v )
          => (state'[v] = state[v] /\ data'[v] = data[v])]_vars

\* C20: a step that changes the state or the data of a voter changes the
\* state and the data of no other voter, and every handler that moves in that
\* step is a handler of that voter: the handlers of a voter (cb_vote_option,
\* cb_captcha_answer with its add_vote, cmd_cancel) leave the sessions of the
\* other voters as they were, however the two voters' steps interleave.
C20_SessionsAreIndependent ==
    [][\A b \in Voters :
          (state'[b] # state[b] \/ data'[b] # data[b])
          => /\ \A a \in Voters \ {b} : state'[a] = state[a] /\ data'[a] = data[a]
             /\ \A t \in Tasks :
                   (task'[t] # task[t])
                   => (IF task[t].kind = "idle" THEN task'[t].voter ELSE task[t].voter) = b]_vars

\* One voter's last answer is at add_vote's commit while the other voter is
\* in a session of their own with a round solved and another option.
C20_Witness ==
    \E t \in Tasks, b \in Voters :
        /\ task[t].kind = "answer" /\ task[t].pc = "av_commit"
        /\ task[t].voter # b
        /\ state[b] = "solving_captcha"
        /\ data[b].captcha_solved = 1
        /\ data[b].option_index \in Options \ {task[t].option}
        /\ data[b].captcha_answer \in Answers

\* C21: a "ca:" callback that passes the filters of cb_captcha_answer gets
\* past the handler's reads of the session (captcha_answer, captcha_solved,
\* poll_id, option_index): the handler does not end there with an exception.
C21_AnswerReadsNeverRaise ==
    [][\A t \in Tasks :
          ( /\ task[t].kind = "idle" /\ task'[t].kind = "answer"
            /\ state[task'[t].voter] = "solving_captcha" )
          => task'[t].pc # "raised"]_vars

\* C23: a committed vote row stays: every step leaves each committed row in
\* the table with the id, the poll, the voter and the option it had.
C23_CommittedVotesStay ==
    [][votes \subseteq votes']_vars

\* A committed row of a poll that has since been soft-deleted, after a further
\* add_vote for the same poll and voter with another option was refused: the
\* row has the option and the id it was inserted with.
C23_Witness ==
    \E t \in Tasks, r \in votes :
        /\ task[t].kind = "ledger" /\ task[t].pc = "returned"
        /\ task[t].result = "false" /\ task[t].lastErr = UniqueMsg
        /\ task[t].poll = r.poll /\ task[t].voter = r.user
        /\ task[t].option # r.opt
        /\ r.poll \in inactive
        /\ RowsOf(Visible, r.poll, r.user) = {r}

\* C28: the steps of delete_poll leave the vote rows as the connection sees
\* them, and with them every total and every tally, as they were; and a poll
\* that get_poll no longer returns is returned by no later get_poll.
C28_DeleteOnlyDeactivates ==
    [][/\ \A t \in Tasks :
            (task[t].kind = "delete" /\ task'[t] # task[t])
            => /\ Visible' = Visible
               /\ \A p \in Polls : /\ GetTotalVotes(p)' = GetTotalVotes(p)
                                    /\ GetVoteCounts(p)' = GetVoteCounts(p)
       /\ \A p \in Polls : ~PollActive(p) => ~PollActive(p)']_vars

C30_RoundsSolvedGrow ==
    [][\A v \in Voters :
          /\ (state'[v] = "solving_captcha" /\ data'[v].captcha_solved # Missing)
             => data'[v].captcha_solved \in 0..CAPTCHA_COUNT
          /\ ( /\ state[v] = "solving_captcha" /\ state'[v] = "solving_captcha"
               /\ data[v].captcha_solved # Missing
               /\ ~\E t \in Tasks : /\ task[t].kind = "vote" /\ task[t].voter = v
                                     /\ task[t].pc = "vo_get_poll"
                                     /\ task'[t].pc = "sc_gen" )
             => data'[v].captcha_solved >= data[v].captcha_solved]_vars

\* C27: while a handler of one voter waits for the image synthesis, every
\* other voter can have a v: callback accepted, can have a ca: callback and a
\* text message accepted when in solving_captcha, and a running handler of
\* another voter can take its next step, whatever that step is (a database
\* call returns when it is the oldest one waiting on the connection).
C27_SynthesisBlocksNobody ==
    \A t1, t2 \in Tasks :
        (t1 # t2 /\ task[t1].pc = "sc_gen")
        => \A b \in Voters \ {task[t1].voter} :
              /\ Free(t2)
                 => /\ ENABLED (\E p \in HotPolls, o \in Options : BeginVote(t2, b, p, o))
                    /\ state[b] = "solving_captcha"
                       => /\ ENABLED (\E sel \in Answers : SubmitAnswer(t2, b, sel))
                          /\ ENABLED IgnoreDuringCaptcha(b)
              /\ ( /\ task[t2].kind # "idle" /\ task[t2].voter = b
                   /\ task[t2].pc \in DbPcs => Turn(t2) )
                 => ENABLED PairStep(t2)

\* One voter's handler waits for the synthesis while another voter's last
\* answer is at add_vote's commit.
C27_Witness ==
    \E t1, t2 \in Tasks :
        /\ task[t1].pc = "sc_gen" /\ task[t1].kind = "vote"
        /\ task[t2].kind = "answer" /\ task[t2].pc = "av_commit"
        /\ task[t2].voter # task[t1].voter
        /\ state[task[t1].voter] = "solving_captcha"
        /\ data[task[t1].voter].captcha_answer = Missing

\* The options of the returned puzzle that are not its answer.
Decoys == {i \in DOMAIN gen.options : gen.options[i] # gen.answer}

\* C24: every puzzle generate_captcha_image returns has a list of exactly 4
\* options, all of them integers >= 0, no two of them equal, and the returned
\* answer is one of them, at exactly one position.
C24_FourDistinctOptions ==
    gen.pc = "returned"
    => /\ Len(gen.options) = 4
       /\ \A i \in DOMAIN gen.options : gen.options[i] \in Nat
       /\ \A i, j \in DOMAIN gen.options : gen.options[i] = gen.options[j] => i = j
       /\ Cardinality({i \in DOMAIN gen.options : gen.options[i] = gen.answer}) = 1

\* A puzzle with the answer 0 has been returned: its wrong options all lie
\* above the answer, the largest of them in the last place.
C24_Witness ==
    /\ gen.pc = "returned"
    /\ gen.answer = 0
    /\ gen.options[1] = 0
    /\ gen.options[4] = 10

\* C25: every returned puzzle has 3 wrong options; no two of them are equal,
\* none is the answer, and each lies at a distance of 1 to 10 from the answer,
\* above it or below it.
C25_DecoysNearTheAnswer ==
    gen.pc = "returned"
    => /\ Cardinality(Decoys) = 3
       /\ \A i, j \in Decoys : gen.options[i] = gen.options[j] => i = j
       /\ \A i \in Decoys :
             /\ gen.options[i] # gen.answer
             /\ \/ gen.options[i] - gen.answer \in 1..10
                \/ gen.answer - gen.options[i] \in 1..10

\* A returned puzzle with wrong options at both ends of the range and next
\* to the answer: 10 below, 10 above and 1 above.
C25_Witness ==
    /\ gen.pc = "returned"
    /\ {gen.options[i] : i \in Decoys} =
          {gen.answer - 10, gen.answer + 1, gen.answer + 10}

\* C26: in every run the operands of an addition and of a subtraction lie
\* in 1..60 and those of a multiplication in 2..12, the second operand of a
\* subtraction is at most the first, the answer computed from them is their
\* sum, difference or product and is >= 0, and it is the answer that is
\* returned (no later step changes it).
C26_OperandsAndAnswer ==
    [][/\ (gen.pc = "drawn" /\ gen'.pc = "computed")
          => /\ gen.op \in {"+", "-"} => (gen.a \in 1..60 /\ gen.b \in 1..60)
             /\ gen.op = "*" => (gen.a \in 2..12 /\ gen.b \in 2..12)
             /\ gen.op = "-" => gen.b <= gen.a
             /\ gen.op = "+" => gen'.answer = gen.a + gen.b
             /\ gen.op = "-" => gen'.answer = gen.a - gen.b
             /\ gen.op = "*" => gen'.answer = gen.a * gen.b
             /\ gen'.answer >= 0
       /\ gen.pc \in {"computed", "decoys"} => gen'.answer = gen.answer]_vars

\* A subtraction of the largest operand from itself has been computed.
C26_Witness ==
    /\ gen.pc = "computed"
    /\ gen.op = "-"
    /\ gen.a = 60
    /\ gen.b = 60
    /\ gen.answer = 0

\* C22: whenever _send_captcha sends a new puzzle while the session holds the
\* handle of a puzzle message sent before (captcha_msg_id, stored by the
\* _send_captcha that sent it), the message it tried to remove before sending
\* is a puzzle message; and whatever became of the removal, the puzzle has
\* been sent and the session holds its answer.
C22_OldPuzzleRemovedFirst ==
    [][\A t \in Tasks :
          ( /\ task[t].pc = "sc_show"
            /\ task'[t].pc = "answer_cb" /\ task'[t].shown = "puzzle" )
          => /\ data[task[t].voter].captcha_msg_id # Missing
                => Pressed(task[t]) = "puzzle"
             /\ data'[task[t].voter].captcha_answer = task'[t].issued
             /\ data'[task[t].voter].captcha_msg_id # Missing]_vars

\* Task t is inside add_vote.
InAddVote(t) == task[t].pc \in {"av_insert", "av_commit", "av_rollback", "av_sleep"}

\* C31: whatever the INSERT, the commit and the rollback of an add_vote call
\* do (succeed, violate the constraint, raise a lock error or another error),
\* the call raises nothing, makes at most 3 attempts (attempt is 0, 1 or 2)
\* with at most 2 sleeps between them, returns True or False, and every call
\* that has begun does return.
C31_AddVoteAlwaysReturns ==
    /\ [](\A t \in Tasks :
             task[t].kind = "ledger"
             => /\ task[t].pc # "raised"
                /\ task[t].attempt \in 0..(AddVoteAttempts - 1)
                /\ Len(task[t].slept) <= AddVoteAttempts - 1
                /\ InAddVote(t) => Len(task[t].slept) = task[t].attempt
                /\ task[t].pc = "returned" => task[t].result \in {"true", "false"})
    /\ \A t \in Tasks : InAddVote(t) ~> task[t].pc = "returned"

\* A call has returned False after three attempts and two sleeps, its last
\* rollback having failed (the row it inserted is still pending).
C31_Witness ==
    \E t \in Tasks :
        /\ task[t].kind = "ledger" /\ task[t].pc = "returned"
        /\ task[t].result = "false"
        /\ task[t].attempt = AddVoteAttempts - 1
        /\ task[t].slept = <<Backoff(0), Backoff(1)>>
        /\ task[t].rowState = "pending"

\* C32: when get_vote_number returns in a cb_captcha_answer whose add_vote
\* returned True, the number it returns is at least 1 and at most the total
\* the handler has read for the same message; it is the total when the poll
\* has had no row newer than the voter's since the total was read (so it is
\* 1 when the voter's row is the only one).
C32_VoteNumberWithinTotal ==
    [][\A t \in Tasks :
          ( /\ task[t].kind = "answer" /\ task[t].pc = "ca_number"
            /\ task[t].result = "true"
            /\ task'[t].pc = "ca_result" )
          => LET p == task[t].poll
                 v == task[t].voter
                 number == GetVoteNumber(p, v)
             IN  /\ 1 <= number
                 /\ number <= task[t].total
                 /\ ( /\ GetTotalVotes(p) = task[t].total
                      /\ \A r \in PollRows(p) :
                            \A s \in RowsOf(Visible, p, v) : r.id <= s.id )
                    => number = task[t].total]_vars

\* C33: every poll the authoring flow has stored has a question that is not
\* empty and at least 2 option labels, and its labels are the labels the
\* creator entered for it, in the order of entry.
C33_StoredPollsAreComplete ==
    \A i \in DOMAIN polls :
        /\ polls[i].question \notin {Absent, ""}
        /\ Len(polls[i].options) >= 2
        /\ polls[i].options = polls[i].entered

C35_NoVoteForInactivePoll ==
    [][\A t \in Tasks :
          ( /\ task[t].kind = "answer" /\ task[t].pc = "av_insert"
            /\ task'[t].pc = "av_commit" )
          => PollActive(task[t].poll)]_vars

\* C36: the option index of every row of the votes table, committed or in the
\* open transaction, is an index of the poll's option list:
\* 0 <= index < number of options.
C36_StoredIndexIsValid ==
    \A r \in votes \cup pending : r.opt \in Options

\* A handler of voter v other than t is in progress.
OtherRunning(t, v) ==
    \E u \in Tasks \ {t} :
        Handler(u) /\ task[u].voter = v /\ task[u].pc \notin {"answer_cb", "raised"}

\* C37: when a handler that has generated a puzzle ends, by its return or by
\* an exception, and leaves the voter's session in solving_captcha with no
\* other handler of the voter in progress, then the handler has displayed its
\* puzzle and the stored captcha_answer is the answer of that puzzle, the
\* last one displayed.
C37_StoredAnswerIsDisplayedPuzzle ==
    [][\A t \in Tasks :
          ( /\ Handler(t)
            /\ task[t].pc \notin {"answer_cb", "raised"}
            /\ task'[t].pc \in {"answer_cb", "raised"}
            /\ task'[t].issued # NoneVal
            /\ state'[task[t].voter] = "solving_captcha"
            /\ ~OtherRunning(t, task[t].voter) )
          => /\ task'[t].shown = "puzzle"
             /\ data'[task[t].voter].captcha_answer = task'[t].issued]_vars

\* C38: the decoy loop of generate_captcha_image ends for every answer the
\* function can compute, 0 included: while the loop runs, the values it can
\* still add are at least as many as it still needs (3 of them when it
\* starts), it never holds more than 3 decoys, and under fair draws every run
\* that has computed its answer reaches exactly 3 decoys.
C38_DecoyLoopEnds ==
    /\ [](gen.pc \in {"computed", "decoys"}
            => /\ Cardinality(gen.wrong) <= 3
               /\ Cardinality(Admissible) >= 3 - Cardinality(gen.wrong)
               /\ gen.pc = "computed" => gen.wrong = {} /\ Cardinality(Admissible) >= 3)
    /\ (gen.pc = "computed") ~> (gen.pc = "decoys" /\ Cardinality(gen.wrong) = 3)

\* The loop has ended with 3 decoys for the answer 0, where no value below
\* the answer is acceptable.
C38_Witness ==
    gen.pc = "decoys" /\ gen.answer = 0 /\ Cardinality(gen.wrong) = 3

\* C39: once a bc:stop has been handled while the loop of a broadcast runs,
\* that broadcast begins no further delivery (the one in flight may finish)
\* and its final status is cancelled; and a broadcast ends cancelled only if
\* a bc:stop was handled while it ran, so a stop handled when no broadcast
\* runs cancels no broadcast started later.
C39_StopEndsTheBroadcast ==
    /\ [][\A b \in Broadcasts :
             bc[b].stopped
             => /\ bc'[b].pc = "deliver" => bc[b].pc = "deliver"
                /\ (bc[b].pc # "done" /\ bc'[b].pc = "done")
                   => bc'[b].status = "cancelled"]_vars
    /\ [](\A b \in Broadcasts :
             (bc[b].pc = "done" /\ bc[b].status = "cancelled") => bc[b].stopped)

\* C40: among the get_instance calls made while no live instance exists, at
\* most one opens a connection, the callers that have returned hold one and
\* the same object, the installed one, and once all of them have returned
\* exactly one connection has been opened.
C40_OneConnectionForAllCallers ==
    /\ conn.opened <= 1
    /\ \A c \in Callers :
          gi[c].pc = "returned" => gi[c].got # 0 /\ gi[c].got = conn.instance
    /\ ( /\ \A c \in Callers : gi[c].pc \in {"idle", "returned"}
         /\ \E c \in Callers : gi[c].pc = "returned" )
       => conn.opened = 1

====
